---- MODULE Spec2Model ----
(***************************************************************************)
(* Model of the table-of-contents generator of devto-cli (src/toc.ts, kept *)
(* as src/unnamed/part_003): the anchor slugifier generateDevToAnchor, the *)
(* line scanner extractTocEntries, the composer generateTocMarkdown and    *)
(* the placement engine updateToc / needsTocUpdate.                        *)
(*                                                                         *)
(* A JavaScript string is a sequence of characters; a character is a       *)
(* one-character TLA+ string.  Two characters that a TLA+ string literal   *)
(* cannot hold are named tokens: BT (the backtick) and EMOJI (one code     *)
(* point of the ranges of EMOJI_REGEX).  Line indices are 0-based as in    *)
(* the source; sequences are 1-based, so line i is lines[i + 1].           *)
(***************************************************************************)
EXTENDS Integers, Sequences, FiniteSets, TLC

VARIABLES
    pc,               \* which call the program is in / has completed
    content,          \* the document text handed to the exported function
    lines,            \* extractTocEntries: content.split('\n')
    lineNo,           \* extractTocEntries: 0-based index of the next line of the for loop
    inCodeBlock,      \* extractTocEntries: local flag
    codeBlockMarker,  \* extractTocEntries: the fence that opened the code block
    inHtmlComment,    \* extractTocEntries: local flag
    entries,          \* extractTocEntries: the TocEntry list built so far
    tocOptions,       \* generateTocOnly: opts, the options merged over defaultOptions
    toc,              \* generateTocOnly: the returned markup
    needs,            \* needsTocUpdate: the returned boolean
    updated,          \* updateToc(content)
    updatedAgain,     \* updateToc(updateToc(content))
    title,            \* generateDevToAnchor: the argument
    anchor,           \* generateDevToAnchor: the returned anchor
    lastIndex,        \* toc.ts: the lastIndex of each regex constant with the g flag
    history,          \* the calls of generateDevToAnchor made so far: argument and result
    disk,             \* toc command: the text of each matching file on the disk
    fileNo,           \* toc command: 0-based index of the next file of the for loop
    writes,           \* toc command: the fs.writeFile calls made so far
    outcomes,         \* toc command: what was reported for each file processed so far
    pushOptions,      \* push: the PushOptions
    articles,         \* push: the articles read from the files
    articleNo,        \* push: 0-based index of the next article of the for loop
    saved,            \* push: the saveArticleToFile calls made so far
    sent,             \* push: the updateRemoteArticle calls made so far
    results,          \* push: the PushResult list built so far
    exitCode,         \* push: process.exitCode
    request,          \* updateRemoteArticle: the request update() makes for the article
    retries,          \* updateRemoteArticle: the retries argument of the running retryRequest
    requests,         \* updateRemoteArticle: the requests issued so far, with their outcomes
    response          \* updateRemoteArticle: how the returned promise settled

scanVars == <<lines, lineNo, inCodeBlock, codeBlockMarker, inHtmlComment, entries, tocOptions>>

commandVars == <<disk, fileNo, writes, outcomes>>

pushVars == <<pushOptions, articles, articleNo, saved, sent, results, exitCode>>

retryVars == <<request, retries, requests, response>>

vars == <<pc, content, scanVars, toc, needs, updated, updatedAgain, title, anchor, lastIndex,
          history, commandVars, pushVars, retryVars>>

---------------------------------------------------------------------------
(* Strings *)

Chars(s) == [i \in 1..Len(s) |-> SubSeq(s, i, i)]

BT == "BACKTICK"
EMOJI == "EMOJI"
NL == "\n"

WhiteSpace == {" ", "\t", "\n", "\r"}
Digits == {"0", "1", "2", "3", "4", "5", "6", "7", "8", "9"}

UpperCase == Chars("ABCDEFGHIJKLMNOPQRSTUVWXYZ")
LowerCase == Chars("abcdefghijklmnopqrstuvwxyz")

\* String.prototype.startsWith
StartsWith(s, p) == Len(s) >= Len(p) /\ SubSeq(s, 1, Len(p)) = p

\* String.prototype.includes
Includes(s, p) == \E i \in 0..(Len(s) - Len(p)) : SubSeq(s, i + 1, i + Len(p)) = p

\* index (1-based) of the first occurrence of character c at or after from; 0 if none
IndexOf(s, c, from) ==
    IF \E i \in from..Len(s) : s[i] = c
    THEN CHOOSE i \in from..Len(s) : s[i] = c /\ \A j \in from..(i - 1) : s[j] # c
    ELSE 0

\* first index at or after from whose character is not in set S (Len(s) + 1 if none)
SkipWhile(s, S, from) ==
    IF \E i \in from..Len(s) : s[i] \notin S
    THEN CHOOSE i \in from..Len(s) : s[i] \notin S /\ \A j \in from..(i - 1) : s[j] \in S
    ELSE IF from > Len(s) + 1 THEN from ELSE Len(s) + 1

\* String.prototype.trim
Trim(s) ==
    LET a == SkipWhile(s, WhiteSpace, 1)
    IN  IF a > Len(s) THEN <<>>
        ELSE LET b == CHOOSE i \in a..Len(s) :
                        s[i] \notin WhiteSpace /\ \A j \in (i + 1)..Len(s) : s[j] \in WhiteSpace
             IN  SubSeq(s, a, b)

RECURSIVE Concat(_)
\* the concatenation of a sequence of strings
Concat(ss) == IF ss = <<>> THEN <<>> ELSE Head(ss) \o Concat(Tail(ss))

\* s.replace(/c/g, rep) for a single character c
ReplaceChar(s, c, rep) == Concat([i \in 1..Len(s) |-> IF s[i] = c THEN rep ELSE <<s[i]>>])

\* s.replace(/[S]/g, '') for a character class S
RemoveChars(s, S) == Concat([i \in 1..Len(s) |-> IF s[i] \in S THEN <<>> ELSE <<s[i]>>])

\* s.replace(/[S]+/g, rep): every maximal run of characters of S becomes rep
ReplaceRuns(s, S, rep) ==
    Concat([i \in 1..Len(s) |->
              IF s[i] \notin S THEN <<s[i]>>
              ELSE IF i > 1 /\ s[i - 1] \in S THEN <<>> ELSE rep])

RECURSIVE Split(_)
\* content.split('\n')
Split(s) ==
    LET i == IndexOf(s, NL, 1)
    IN  IF i = 0 THEN <<s>>
        ELSE <<SubSeq(s, 1, i - 1)>> \o Split(SubSeq(s, i + 1, Len(s)))

RECURSIVE Join(_)
\* lines.join('\n')
Join(ls) ==
    IF ls = <<>> THEN <<>>
    ELSE IF Len(ls) = 1 THEN ls[1]
    ELSE ls[1] \o <<NL>> \o Join(Tail(ls))

\* Array.prototype.slice(from) / slice(from, to) with 0-based indices, to exclusive
Slice(ls, from, to) == SubSeq(ls, from + 1, to)

---------------------------------------------------------------------------
(* Constants of the source *)

TOC_START == Chars("<!-- TOC start -->")
TOC_END == Chars("<!-- TOC end -->")
TOC_PLACEHOLDER == Chars("[TOC]")

\* PUNCTUATION_REGEX: the ASCII punctuation, the backtick and the hyphen.  The six
\* non-ASCII look-alikes of the class do not occur in the titles of this model.
PUNCTUATION ==
    {"!", "\"", "#", "$", "%", "&", "'", "(", ")", "*", "+", ",", ".", "/", ":", ";",
     "<", "=", ">", "?", "@", "[", "\\", "]", "^", "_", BT, "{", "|", "}", "~", "-"}

\* EMOJI_REGEX: the code points U+1F300-1F9FF, U+2600-26FF, U+2700-27BF
EMOJI_CHARS == {EMOJI}

\* defaultOptions with the cutoff one level deeper
defaultOptions_maxLevel3 ==
    [indentChars |-> Chars("-*+"), indentSpaces |-> 3, maxLevel |-> 3,
     trimTocIndent |-> TRUE, concatSpaces |-> TRUE]

defaultOptions ==
    [indentChars |-> Chars("-*+"), indentSpaces |-> 3, maxLevel |-> 2,
     trimTocIndent |-> TRUE, concatSpaces |-> TRUE]

---------------------------------------------------------------------------
(* Anchor slugifier *)

toLowerCase(s) ==
    [i \in 1..Len(s) |->
        IF \E k \in 1..26 : UpperCase[k] = s[i]
        THEN LowerCase[CHOOSE k \in 1..26 : UpperCase[k] = s[i]]
        ELSE s[i]]

escapeHtmlEntities(text) ==
    ReplaceChar(ReplaceChar(ReplaceChar(text, "&", Chars("amp")), "<", Chars("lt")),
                ">", Chars("gt"))

RECURSIVE escapeInlineCode(_)
\* .replace(INLINE_CODE_REGEX, (_, code) => `\`${escapeHtmlEntities(code)}\``)
escapeInlineCode(s) ==
    LET i == IndexOf(s, BT, 1)
        j == IF i = 0 THEN 0 ELSE IndexOf(s, BT, i + 1)
    IN  IF j = 0 THEN s
        ELSE SubSeq(s, 1, i) \o escapeHtmlEntities(SubSeq(s, i + 1, j - 1)) \o <<BT>>
             \o escapeInlineCode(SubSeq(s, j + 1, Len(s)))

RECURSIVE stripHtmlTags(_)
\* .replace(HTML_TAGS_REGEX, '') with HTML_TAGS_REGEX = /<[^>]*>/g
stripHtmlTags(s) ==
    LET i == IndexOf(s, "<", 1)
        j == IF i = 0 THEN 0 ELSE IndexOf(s, ">", i + 1)
    IN  IF j = 0 THEN s
        ELSE SubSeq(s, 1, i - 1) \o stripHtmlTags(SubSeq(s, j + 1, Len(s)))

\* MARKDOWN_LINK_REGEX = /\[([^\]]*)\]\([^)]*\)/ tried at index i: the index of the
\* closing parenthesis of the match, 0 if the regex does not match there
linkEndAt(s, i) ==
    IF i > Len(s) \/ s[i] # "[" THEN 0
    ELSE LET k == IndexOf(s, "]", i + 1)
         IN  IF k = 0 \/ k + 1 > Len(s) \/ s[k + 1] # "(" THEN 0
             ELSE IndexOf(s, ")", k + 2)

RECURSIVE stripLinksFrom(_, _)
stripLinksFrom(s, i) ==
    IF i > Len(s) THEN <<>>
    ELSE LET m == linkEndAt(s, i)
         IN  IF m = 0 THEN <<s[i]>> \o stripLinksFrom(s, i + 1)
             ELSE SubSeq(s, i + 1, IndexOf(s, "]", i + 1) - 1) \o stripLinksFrom(s, m + 1)

\* .replace(MARKDOWN_LINK_REGEX, '$1')
stripMarkdownLinks(text) == stripLinksFrom(text, 1)

RECURSIVE rawMarkersFrom(_, _, _)
\* the map callback of replaceBackticksWithRawMarker from character i with its counter
rawMarkersFrom(text, i, counter) ==
    IF i > Len(text) THEN <<>>
    ELSE IF text[i] = BT
         THEN (IF counter % 2 = 0 THEN Chars(" raw ") ELSE Chars(" endraw "))
              \o rawMarkersFrom(text, i + 1, counter + 1)
         ELSE <<text[i]>> \o rawMarkersFrom(text, i + 1, counter)

replaceBackticksWithRawMarker(text) == rawMarkersFrom(text, 1, 0)

spacesToDash(text) == ReplaceRuns(text, WhiteSpace, <<"-">>)

concatDashes(text) == ReplaceRuns(text, {"-"}, <<"-">>)

\* .replace(/`/g, (_, offset, str) => backticksBefore % 2 === 0 ? ' raw ' : ' endraw ')
replaceBackticks(s) ==
    Concat([i \in 1..Len(s) |->
              IF s[i] # BT THEN <<s[i]>>
              ELSE IF Cardinality({j \in 1..(i - 1) : s[j] = BT}) % 2 = 0
                   THEN Chars(" raw ") ELSE Chars(" endraw ")])

\* .replace(/^-+|-+$/g, '')
stripDashes(s) ==
    LET a == SkipWhile(s, {"-"}, 1)
    IN  IF a > Len(s) THEN <<>>
        ELSE LET b == CHOOSE i \in a..Len(s) :
                        s[i] # "-" /\ \A j \in (i + 1)..Len(s) : s[j] = "-"
             IN  SubSeq(s, a, b)

\* generateDevToAnchor without the final removal of leading and trailing dashes
generateDevToAnchor_keepDashes(t) ==
    LET s1 == toLowerCase(t)
        s2 == escapeInlineCode(s1)
        s3 == stripHtmlTags(s2)
        s4 == stripMarkdownLinks(s3)
        s5 == escapeHtmlEntities(s4)
        s6 == RemoveChars(s5, EMOJI_CHARS)
        s7 == Trim(s6)
        s8 == replaceBackticks(s7)
        s9 == RemoveChars(s8, PUNCTUATION)
        s10 == ReplaceRuns(s9, WhiteSpace, <<"-">>)
    IN  ReplaceRuns(s10, {"-"}, <<"-">>)

\* generateDevToAnchor with the entities escaped after the punctuation is removed
generateDevToAnchor_escapeLate(t) ==
    LET s1 == toLowerCase(t)
        s2 == escapeInlineCode(s1)
        s3 == stripHtmlTags(s2)
        s4 == stripMarkdownLinks(s3)
        s6 == RemoveChars(s4, EMOJI_CHARS)
        s7 == Trim(s6)
        s8 == replaceBackticks(s7)
        s9 == escapeHtmlEntities(RemoveChars(s8, PUNCTUATION))
        s10 == ReplaceRuns(s9, WhiteSpace, <<"-">>)
        s11 == ReplaceRuns(s10, {"-"}, <<"-">>)
    IN  stripDashes(s11)

generateDevToAnchor(t) ==
    LET s1 == toLowerCase(t)
        s2 == escapeInlineCode(s1)
        s3 == stripHtmlTags(s2)
        s4 == stripMarkdownLinks(s3)
        s5 == escapeHtmlEntities(s4)
        s6 == RemoveChars(s5, EMOJI_CHARS)
        s7 == Trim(s6)
        s8 == replaceBackticks(s7)
        s9 == RemoveChars(s8, PUNCTUATION)
        s10 == ReplaceRuns(s9, WhiteSpace, <<"-">>)
        s11 == ReplaceRuns(s10, {"-"}, <<"-">>)
    IN  stripDashes(s11)

\* the regex constants with the g flag: module-level objects whose lastIndex outlives
\* a call.  The regex literals inside generateDevToAnchor are new objects at each call.
GlobalRegexes ==
    {"MARKDOWN_LINK_REGEX", "HTML_TAGS_REGEX", "INLINE_CODE_REGEX", "SPACES_REGEX",
     "PUNCTUATION_REGEX", "EMOJI_REGEX"}

\* the lastIndex of the regex constants once the module is loaded
regexesAtLoad == [rx \in GlobalRegexes |-> 0]

\* a replace that searches from the lastIndex it finds and leaves it behind the first
\* character, as a search with exec or test on a g-flag regex does
globalReplace_fromLastIndex(li) == [from |-> li, lastIndex |-> 1]

\* string.replace(regex, ...) on a regex with the g flag whose lastIndex is li: lastIndex
\* is set to 0 before the first search (from), and the last search, which fails, leaves
\* it at 0 (lastIndex)
globalReplace(li) == [from |-> 0, lastIndex |-> 0]

\* one call of generateDevToAnchor on the regex constants as they are (regexes): the
\* returned anchor and the lastIndex values the call leaves
generateDevToAnchorCall(t, regexes) ==
    LET from(rx, s) == IF globalReplace(regexes[rx]).from < Len(s)
                       THEN globalReplace(regexes[rx]).from ELSE Len(s)
        skipped(rx, s) == SubSeq(s, 1, from(rx, s))
        searched(rx, s) == SubSeq(s, from(rx, s) + 1, Len(s))
        s1 == toLowerCase(t)
        s2 == skipped("INLINE_CODE_REGEX", s1)
              \o escapeInlineCode(searched("INLINE_CODE_REGEX", s1))
        s3 == skipped("HTML_TAGS_REGEX", s2) \o stripHtmlTags(searched("HTML_TAGS_REGEX", s2))
        s4 == skipped("MARKDOWN_LINK_REGEX", s3)
              \o stripMarkdownLinks(searched("MARKDOWN_LINK_REGEX", s3))
        s5 == escapeHtmlEntities(s4)
        s6 == skipped("EMOJI_REGEX", s5) \o RemoveChars(searched("EMOJI_REGEX", s5), EMOJI_CHARS)
        s7 == Trim(s6)
        s8 == replaceBackticks(s7)
        s9 == skipped("PUNCTUATION_REGEX", s8)
              \o RemoveChars(searched("PUNCTUATION_REGEX", s8), PUNCTUATION)
        s10 == skipped("SPACES_REGEX", s9)
               \o ReplaceRuns(searched("SPACES_REGEX", s9), WhiteSpace, <<"-">>)
        s11 == ReplaceRuns(s10, {"-"}, <<"-">>)
    IN  [anchor |-> stripDashes(s11),
         lastIndex |-> [rx \in GlobalRegexes |-> globalReplace(regexes[rx]).lastIndex]]

---------------------------------------------------------------------------
(* Structural scanner *)

\* HEADER_REGEX = /^(#{1,6}) +(.+)$/ ; null is matched = FALSE
parseHeader(line) ==
    LET n == SkipWhile(line, {"#"}, 1) - 1
        rest == SubSeq(line, n + 1, Len(line))
    IN  IF /\ n >= 1
           /\ n <= 6
           /\ Len(rest) >= 2
           /\ rest[1] = " "
           /\ \A i \in 1..Len(rest) : rest[i] \notin {"\n", "\r"}
        THEN [matched |-> TRUE, level |-> n, title |-> Trim(rest)]
        ELSE [matched |-> FALSE, level |-> 0, title |-> <<>>]

\* line.replace(/^\s*(?:\d+\.)?[*+-]?\s*/, '')
stripListPrefix(line) ==
    LET p1 == SkipWhile(line, WhiteSpace, 1)
        d == SkipWhile(line, Digits, p1)
        p2 == IF d > p1 /\ d <= Len(line) /\ line[d] = "." THEN d + 1 ELSE p1
        p3 == IF p2 <= Len(line) /\ line[p2] \in {"*", "+", "-"} THEN p2 + 1 ELSE p2
        p4 == SkipWhile(line, WhiteSpace, p3)
    IN  SubSeq(line, p4, Len(line))

\* the fence run that starts the line (after a list prefix); null is <<>>
isCodeBlockMarker(line) ==
    LET trimmed == stripListPrefix(line)
    IN  IF StartsWith(trimmed, <<BT, BT, BT>>) \/ StartsWith(trimmed, Chars("~~~"))
        THEN SubSeq(trimmed, 1, SkipWhile(trimmed, {trimmed[1]}, 1) - 1)
        ELSE <<>>

HTML_COMMENT_START == Chars("<!--")
HTML_COMMENT_END == Chars("-->")

\* the TocEntry pushed for a header
tocEntry(header) ==
    [indent |-> header.level - 1,
     title |-> stripMarkdownLinks(header.title),
     link |-> generateDevToAnchor(header.title)]

\* scanLine with a numeric suffix on the anchor of a heading whose anchor is already
\* listed, as GitHub disambiguates duplicate anchors
scanLine_suffixDuplicates(st, line, options) ==
    IF ~st.inCodeBlock /\ Includes(line, HTML_COMMENT_START) /\ ~Includes(line, HTML_COMMENT_END)
    THEN [st EXCEPT !.inHtmlComment = TRUE]
    ELSE IF ~st.inCodeBlock /\ st.inHtmlComment
    THEN [st EXCEPT !.inHtmlComment = ~Includes(line, HTML_COMMENT_END)]
    ELSE LET codeMarker == isCodeBlockMarker(line)
             header == parseHeader(line)
             entry == tocEntry(header)
             seen == Cardinality({i \in 1..Len(st.entries) : st.entries[i].title = entry.title})
         IN  IF codeMarker # <<>>
             THEN IF ~st.inCodeBlock
                  THEN [st EXCEPT !.inCodeBlock = TRUE, !.codeBlockMarker = codeMarker]
                  ELSE IF StartsWith(Trim(line), st.codeBlockMarker)
                       THEN [st EXCEPT !.inCodeBlock = FALSE, !.codeBlockMarker = <<>>]
                       ELSE st
             ELSE IF st.inCodeBlock \/ st.inHtmlComment THEN st
             ELSE IF header.matched /\ header.level <= options.maxLevel
                  THEN [st EXCEPT !.entries =
                            Append(@, IF seen = 0 THEN entry
                                      ELSE [entry EXCEPT !.link = @ \o <<"-", ToString(seen)>>])]
                  ELSE st

\* scanLine with a heading line closing the code block it lies in
scanLine_headingCloses(st, line, options) ==
    IF ~st.inCodeBlock /\ Includes(line, HTML_COMMENT_START) /\ ~Includes(line, HTML_COMMENT_END)
    THEN [st EXCEPT !.inHtmlComment = TRUE]
    ELSE IF ~st.inCodeBlock /\ st.inHtmlComment
    THEN [st EXCEPT !.inHtmlComment = ~Includes(line, HTML_COMMENT_END)]
    ELSE LET codeMarker == isCodeBlockMarker(line)
             header == parseHeader(line)
         IN  IF codeMarker # <<>>
             THEN IF ~st.inCodeBlock
                  THEN [st EXCEPT !.inCodeBlock = TRUE, !.codeBlockMarker = codeMarker]
                  ELSE IF StartsWith(Trim(line), st.codeBlockMarker)
                       THEN [st EXCEPT !.inCodeBlock = FALSE, !.codeBlockMarker = <<>>]
                       ELSE st
             ELSE IF st.inHtmlComment THEN st
             ELSE IF header.matched /\ header.level <= options.maxLevel
                  THEN [st EXCEPT !.inCodeBlock = FALSE, !.codeBlockMarker = <<>>,
                                  !.entries = Append(@, tocEntry(header))]
                  ELSE st

\* scanLine with any fence line closing the code block
scanLine_anyFenceCloses(st, line, options) ==
    IF ~st.inCodeBlock /\ Includes(line, HTML_COMMENT_START) /\ ~Includes(line, HTML_COMMENT_END)
    THEN [st EXCEPT !.inHtmlComment = TRUE]
    ELSE IF ~st.inCodeBlock /\ st.inHtmlComment
    THEN [st EXCEPT !.inHtmlComment = ~Includes(line, HTML_COMMENT_END)]
    ELSE LET codeMarker == isCodeBlockMarker(line)
             header == parseHeader(line)
         IN  IF codeMarker # <<>>
             THEN IF ~st.inCodeBlock
                  THEN [st EXCEPT !.inCodeBlock = TRUE, !.codeBlockMarker = codeMarker]
                  ELSE [st EXCEPT !.inCodeBlock = FALSE, !.codeBlockMarker = <<>>]
             ELSE IF st.inCodeBlock \/ st.inHtmlComment THEN st
             ELSE IF header.matched /\ header.level <= options.maxLevel
                  THEN [st EXCEPT !.entries = Append(@, tocEntry(header))]
                  ELSE st

\* scanLine with the comment handling done inside a code block too
scanLine_commentInCode(st, line, options) ==
    IF Includes(line, HTML_COMMENT_START) /\ ~Includes(line, HTML_COMMENT_END)
    THEN [st EXCEPT !.inHtmlComment = TRUE]
    ELSE IF st.inHtmlComment
    THEN [st EXCEPT !.inHtmlComment = ~Includes(line, HTML_COMMENT_END)]
    ELSE LET codeMarker == isCodeBlockMarker(line)
             header == parseHeader(line)
         IN  IF codeMarker # <<>>
             THEN IF ~st.inCodeBlock
                  THEN [st EXCEPT !.inCodeBlock = TRUE, !.codeBlockMarker = codeMarker]
                  ELSE IF StartsWith(Trim(line), st.codeBlockMarker)
                       THEN [st EXCEPT !.inCodeBlock = FALSE, !.codeBlockMarker = <<>>]
                       ELSE st
             ELSE IF st.inCodeBlock \/ st.inHtmlComment THEN st
             ELSE IF header.matched /\ header.level <= options.maxLevel
                  THEN [st EXCEPT !.entries = Append(@, tocEntry(header))]
                  ELSE st

\* scanLine without the skip of the lines inside a code block or a comment
scanLine_noSkip(st, line, options) ==
    IF ~st.inCodeBlock /\ Includes(line, HTML_COMMENT_START) /\ ~Includes(line, HTML_COMMENT_END)
    THEN [st EXCEPT !.inHtmlComment = TRUE]
    ELSE IF ~st.inCodeBlock /\ st.inHtmlComment
    THEN [st EXCEPT !.inHtmlComment = ~Includes(line, HTML_COMMENT_END)]
    ELSE LET codeMarker == isCodeBlockMarker(line)
             header == parseHeader(line)
         IN  IF codeMarker # <<>>
             THEN IF ~st.inCodeBlock
                  THEN [st EXCEPT !.inCodeBlock = TRUE, !.codeBlockMarker = codeMarker]
                  ELSE IF StartsWith(Trim(line), st.codeBlockMarker)
                       THEN [st EXCEPT !.inCodeBlock = FALSE, !.codeBlockMarker = <<>>]
                       ELSE st
             ELSE IF header.matched /\ header.level <= options.maxLevel
                  THEN [st EXCEPT !.entries = Append(@, tocEntry(header))]
                  ELSE st

\* one iteration of the for loop of extractTocEntries on the locals st
scanLine(st, line, options) ==
    IF ~st.inCodeBlock /\ Includes(line, HTML_COMMENT_START) /\ ~Includes(line, HTML_COMMENT_END)
    THEN [st EXCEPT !.inHtmlComment = TRUE]
    ELSE IF ~st.inCodeBlock /\ st.inHtmlComment
    THEN [st EXCEPT !.inHtmlComment = ~Includes(line, HTML_COMMENT_END)]
    ELSE LET codeMarker == isCodeBlockMarker(line)
             header == parseHeader(line)
         IN  IF codeMarker # <<>>
             THEN IF ~st.inCodeBlock
                  THEN [st EXCEPT !.inCodeBlock = TRUE, !.codeBlockMarker = codeMarker]
                  ELSE IF StartsWith(Trim(line), st.codeBlockMarker)
                       THEN [st EXCEPT !.inCodeBlock = FALSE, !.codeBlockMarker = <<>>]
                       ELSE st
             ELSE IF st.inCodeBlock \/ st.inHtmlComment THEN st
             ELSE IF header.matched /\ header.level <= options.maxLevel
                  THEN [st EXCEPT !.entries = Append(@, tocEntry(header))]
                  ELSE st

\* the locals of extractTocEntries before the loop
scanStart ==
    [inCodeBlock |-> FALSE, codeBlockMarker |-> <<>>, inHtmlComment |-> FALSE,
     entries |-> <<>>]

RECURSIVE scanFrom(_, _, _, _)
scanFrom(st, ls, i, options) ==
    IF i > Len(ls) THEN st ELSE scanFrom(scanLine(st, ls[i], options), ls, i + 1, options)

extractTocEntries(c, options) == scanFrom(scanStart, Split(c), 1, options).entries

\* the lastIndex values one iteration of the loop leaves: an iteration that pushes an
\* entry calls generateDevToAnchor and then stripMarkdownLinks, the others use no
\* g-flag regex (HEADER_REGEX and the two comment regexes have no g flag)
scanLineRegexes(st, line, options, regexes) ==
    IF Len(scanLine(st, line, options).entries) = Len(st.entries) THEN regexes
    ELSE [generateDevToAnchorCall(parseHeader(line).title, regexes).lastIndex
              EXCEPT !["MARKDOWN_LINK_REGEX"] = globalReplace(@).lastIndex]

RECURSIVE scanRegexesFrom(_, _, _, _, _)
scanRegexesFrom(st, ls, i, options, regexes) ==
    IF i > Len(ls) THEN regexes
    ELSE scanRegexesFrom(scanLine(st, ls[i], options), ls, i + 1, options,
                         scanLineRegexes(st, ls[i], options, regexes))

\* the lastIndex values a call of extractTocEntries(c, options) leaves
extractTocEntriesRegexes(c, options, regexes) ==
    scanRegexesFrom(scanStart, Split(c), 1, options, regexes)

---------------------------------------------------------------------------
(* TOC composer *)

Spaces(n) == [i \in 1..n |-> " "]

MinOf(S) == CHOOSE m \in S : \A x \in S : m <= x

\* generateTocMarkdown with every bullet taken from the first of indentChars
generateTocMarkdown_firstBullet(es, options) ==
    IF Len(es) = 0 THEN <<>>
    ELSE LET minIndent == IF options.trimTocIndent
                          THEN MinOf({es[i].indent : i \in 1..Len(es)})
                          ELSE 0
             row(entry) ==
                 Spaces((entry.indent - minIndent) * options.indentSpaces)
                 \o <<options.indentChars[1]>>
                 \o Chars(" [") \o entry.title \o Chars("](#") \o entry.link \o Chars(")")
         IN  Join([i \in 1..Len(es) |-> row(es[i])])

generateTocMarkdown(es, options) ==
    IF Len(es) = 0 THEN <<>>
    ELSE LET minIndent == IF options.trimTocIndent
                          THEN MinOf({es[i].indent : i \in 1..Len(es)})
                          ELSE 0
             row(entry) ==
                 LET adjustedIndent == entry.indent - minIndent
                     bullet == options.indentChars[(adjustedIndent % Len(options.indentChars)) + 1]
                 IN  Spaces(adjustedIndent * options.indentSpaces) \o <<bullet>>
                     \o Chars(" [") \o entry.title \o Chars("](#") \o entry.link \o Chars(")")
         IN  Join([i \in 1..Len(es) |-> row(es[i])])

generateTocOnly(c, options) == generateTocMarkdown(extractTocEntries(c, options), options)

---------------------------------------------------------------------------
(* TOC placement engine *)

hasToc(c) ==
    \/ Includes(c, TOC_PLACEHOLDER)
    \/ Includes(c, Chars("{%- # TOC start"))
    \/ Includes(c, Chars("{% comment %}TOC start"))
    \/ Includes(c, Chars("<!-- TOC start"))

needsTocUpdate(c) == hasToc(c)

\* the test of a trimmed line for a TOC start marker
isTocStart(trimmed) ==
    /\ Includes(trimmed, Chars("TOC start"))
    /\ \/ StartsWith(trimmed, Chars("{%-"))
       \/ StartsWith(trimmed, Chars("{% comment %}"))
       \/ StartsWith(trimmed, Chars("<!--"))

\* the test of a trimmed line for a TOC end marker
isTocEnd(trimmed) == Includes(trimmed, Chars("TOC end"))

NoPosition == [found |-> FALSE, startLine |-> -1, endLine |-> -1]

RECURSIVE findTocLoop_startAlone(_, _, _)
\* findTocLoop with a start marker that has no end marker taken for a block of one line
findTocLoop_startAlone(ls, i, startLine) ==
    IF i >= Len(ls)
    THEN (IF startLine # -1 THEN [found |-> TRUE, startLine |-> startLine, endLine |-> startLine]
          ELSE NoPosition)
    ELSE LET trimmed == Trim(ls[i + 1])
             start == IF isTocStart(trimmed) THEN i ELSE startLine
         IN  IF start # -1 /\ isTocEnd(trimmed)
             THEN [found |-> TRUE, startLine |-> start, endLine |-> i]
             ELSE IF trimmed = TOC_PLACEHOLDER
                  THEN [found |-> TRUE, startLine |-> i, endLine |-> i]
                  ELSE findTocLoop_startAlone(ls, i + 1, start)

RECURSIVE findTocLoop(_, _, _)
\* the for loop of findTocPosition from index i with the local startLine
findTocLoop(ls, i, startLine) ==
    IF i >= Len(ls) THEN NoPosition
    ELSE LET trimmed == Trim(ls[i + 1])
             start == IF isTocStart(trimmed) THEN i ELSE startLine
         IN  IF start # -1 /\ isTocEnd(trimmed)
             THEN [found |-> TRUE, startLine |-> start, endLine |-> i]
             ELSE IF trimmed = TOC_PLACEHOLDER
                  THEN [found |-> TRUE, startLine |-> i, endLine |-> i]
                  ELSE findTocLoop(ls, i + 1, start)

findTocPosition(c) == findTocLoop(Split(c), 0, -1)

removeExistingToc(c) ==
    LET position == findTocPosition(c)
        ls == Split(c)
    IN  IF ~position.found THEN [content |-> c, position |-> position]
        ELSE [content |-> Join(Slice(ls, 0, position.startLine)
                               \o Slice(ls, position.endLine + 1, Len(ls))),
              position |-> position]

\* the marker-wrapped block
wrapToc(tocMarkdown) == Join(<<TOC_START, <<>>, tocMarkdown, <<>>, TOC_END>>)

\* cleanContent.replace(/^\n+/, '')
stripLeadingNewlines(c) == SubSeq(c, SkipWhile(c, {NL}, 1), Len(c))

\* updateToc returning the stripped content when no heading is found
updateToc_stripsWhenEmpty(c, opts) ==
    LET removed == removeExistingToc(c)
        cleanContent == removed.content
        tocPosition == removed.position
        es == extractTocEntries(cleanContent, opts)
        wrappedToc == wrapToc(generateTocMarkdown(es, opts))
        ls == Split(cleanContent)
    IN  IF Len(es) = 0 THEN cleanContent
        ELSE IF tocPosition.found
             THEN Join(Slice(ls, 0, tocPosition.startLine) \o <<wrappedToc>>
                       \o Slice(ls, tocPosition.startLine, Len(ls)))
             ELSE <<NL>> \o wrappedToc \o <<NL, NL>> \o stripLeadingNewlines(cleanContent)

updateToc(c, opts) ==
    LET removed == removeExistingToc(c)
        cleanContent == removed.content
        tocPosition == removed.position
        es == extractTocEntries(cleanContent, opts)
        wrappedToc == wrapToc(generateTocMarkdown(es, opts))
        ls == Split(cleanContent)
    IN  IF Len(es) = 0 THEN c
        ELSE IF tocPosition.found
             THEN Join(Slice(ls, 0, tocPosition.startLine) \o <<wrappedToc>>
                       \o Slice(ls, tocPosition.startLine, Len(ls)))
             ELSE <<NL>> \o wrappedToc \o <<NL, NL>> \o stripLeadingNewlines(cleanContent)

\* the lastIndex values a call of updateToc(c, opts) leaves: those of its scan of the
\* content without the existing TOC
updateTocRegexes(c, opts, regexes) ==
    extractTocEntriesRegexes(removeExistingToc(c).content, opts, regexes)

---------------------------------------------------------------------------
(* push: the operations on one article *)

\* updateArticleFooter(article, footerFilePath) once the footer file is read as
\* footerContent: a published article is cut at the first line equal, trimmed, to the
\* first non-empty line of the footer, and the footer is put there
updateArticleFooter(article, footerContent) ==
    LET footerLines == Split(footerContent)
        firstFooterLine == footerLines[MinOf({i \in 1..Len(footerLines) :
                                                 Len(Trim(footerLines[i])) > 0})]
        articleLines == Split(article.content)
        found == {i \in 1..Len(articleLines) : Trim(articleLines[i]) = Trim(firstFooterLine)}
    IN  IF ~article.published \/ found = {} THEN article
        ELSE [article EXCEPT !.content =
                  Join(SubSeq(articleLines, 1, MinOf(found) - 1) \o <<footerContent>>)]

\* the local updates with the TOC updated on the content as read and the footer
\* put in afterwards
localUpdate_tocFirst(article, footerFile, footerContent, opts) ==
    LET tocRuns == opts.updateToc /\ needsTocUpdate(article.content)
        withToc == IF tocRuns
                   THEN [article EXCEPT !.content = updateToc(article.content, defaultOptions)]
                   ELSE article
        withBoth == IF footerFile = "found" THEN updateArticleFooter(withToc, footerContent)
                    ELSE withToc
    IN  [withFooter |-> IF footerFile = "found" THEN updateArticleFooter(article, footerContent)
                        ELSE article,
         tocRuns |-> tocRuns,
         updatedContent |-> withBoth.content]

\* processArticles: the updates of the article in memory at the head of the loop
\* body: the footer first (when DEVTO_FOOTER_FILE names a file that is found), then
\* the TOC of the content with that footer
localUpdate(article, footerFile, footerContent, opts) ==
    LET withFooter == IF footerFile = "found" THEN updateArticleFooter(article, footerContent)
                      ELSE article
        tocRuns == opts.updateToc /\ needsTocUpdate(withFooter.content)
    IN  [withFooter |-> withFooter,
         tocRuns |-> tocRuns,
         updatedContent |-> IF tocRuns THEN updateToc(withFooter.content, defaultOptions)
                            ELSE withFooter.content]

\* the save of the article after its footer or TOC was updated, in a dry run too
savesLocalUpdate_inDryRun(footerWasUpdated, tocWasUpdated, opts) ==
    footerWasUpdated \/ tocWasUpdated

\* processArticles: the condition of the save after the footer or TOC update
savesLocalUpdate(footerWasUpdated, tocWasUpdated, opts) ==
    (footerWasUpdated \/ tocWasUpdated) /\ ~opts.dryRun

\* the loop going on after an article with an offline image
stopsOnStatus_failedOnly(status) == status = "failed"

\* processArticles: the test that ends the loop after an article
stopsOnStatus(status) == status \in {"failed", "imageOffline"}

\* the 1-based indices of the articles without organization, in list order
withoutOrganization(arts) ==
    LET missing == {i \in 1..Len(arts) : ~arts[i].organization}
    IN  [n \in 1..Cardinality(missing) |->
            CHOOSE i \in missing : Cardinality({j \in missing : j <= i}) = n]

---------------------------------------------------------------------------
(* Inputs *)

MaxScanLines == 4
MaxTocLines == 4
MaxTitleLen == 3

FENCE == <<BT, BT, BT>>

\* all the sequences of 1..n elements of S
SeqsUpTo(S, n) == UNION {[1..k -> S] : k \in 1..n}

\* the lines the scanned documents are made of
ScanLines ==
    {Chars("# Title"), Chars("## Section 1"), Chars("### Subsection"), FENCE,
     Chars("~~~"), Chars("<!--"), Chars("-->"), <<>>}

\* the documents of test/toc.spec.ts for generateTocOnly
HeadersDoc ==
    Join(<<Chars("# Title"), <<>>, Chars("## Section 1"), <<>>, Chars("### Subsection"),
           <<>>, Chars("## Section 2")>>)

CodeBlockDoc ==
    Join(<<Chars("# Title"), <<>>, FENCE, Chars("## Not a header"), FENCE, <<>>,
           Chars("## Real Section")>>)

\* a comment opener and a heading inside a code block, then a fence and a heading
\* inside a comment, then a heading outside both
NestedDoc ==
    Join(<<FENCE, Chars("<!--"), Chars("# Title"), FENCE, Chars("<!--"), FENCE,
           Chars("# Title"), Chars("-->"), Chars("## Section 1")>>)

ScanDocs ==
    {Join(ls) : ls \in SeqsUpTo(ScanLines, MaxScanLines)}
    \cup {HeadersDoc, CodeBlockDoc, NestedDoc}

\* the lines the documents handed to updateToc are made of
TocLines ==
    {Chars("# A"), Chars("## TOC end"), TOC_START, TOC_END, TOC_PLACEHOLDER, <<>>, FENCE,
     Chars("see [TOC]")}

LIQUID_START == Chars("{%- # TOC start -%}")
LIQUID_END == Chars("{%- # TOC end -%}")

\* the documents of test/toc.spec.ts for updateToc
FrontMatterDoc ==
    Join(<<Chars("---"), Chars("title: Test"), Chars("---"), <<>>, Chars("# Title"), <<>>,
           Chars("## Section")>>)

ExistingTocDoc ==
    Join(<<Chars("---"), Chars("title: Test"), Chars("---"), <<>>, LIQUID_START, <<>>,
           Chars("- old"), <<>>, LIQUID_END, <<>>, Chars("# Title"), <<>>,
           Chars("## Section")>>)

\* a document whose placeholder sits in a comment of several lines
CommentedTocDoc ==
    Join(<<Chars("# Title"), Chars("<!--"), TOC_PLACEHOLDER, Chars("## Draft"), Chars("-->"),
           Chars("## Section")>>)

TocDocs ==
    {Join(ls) : ls \in SeqsUpTo(TocLines, MaxTocLines)}
        \cup {FrontMatterDoc, ExistingTocDoc, CommentedTocDoc}

\* the titles of test/toc.spec.ts for generateDevToAnchor
TitleHelloWorld == Chars("Hello World")
TitleAwesome == Chars("It's awesome!")
TitleAmpersand == Chars("Hello & goodbye")
TitleLink == Chars("Check out [bitdowntoc](https://example.com)")
TitleCode == Chars("Code: ") \o <<BT>> \o Chars("<tag>") \o <<BT>> \o Chars(" here")
TitleBold == Chars("Some __bold__ text")
TitleQuotes == Chars("\"Hello\" means 'Bonjour'")
TitleSpaces == Chars("Hello   World")

ExampleTitles ==
    {TitleHelloWorld, TitleAwesome, TitleAmpersand, TitleLink, TitleCode, TitleBold,
     TitleQuotes, TitleSpaces}

TitleChars == {"a", "B", " ", "-", "&", "<", ">", BT, EMOJI}

\* the longest text before a link, after it, and inside its parentheses
MaxPartLen == 1

LinkParts == SeqsUpTo({"x", "<", ">", BT}, MaxPartLen) \cup {<<>>}

\* a link '[a](url)' between two texts, and a link whose url holds a '<' in a title
\* that goes on with a generic type
TitleLinkAngle == Chars("[docs](https://example.com/a<b) for List<T>")

LinkTitles ==
    {before \o Chars("[a](") \o url \o Chars(")") \o after :
        before \in LinkParts, url \in LinkParts, after \in LinkParts} \cup {TitleLinkAngle}

Titles == SeqsUpTo(TitleChars, MaxTitleLen) \cup {<<>>} \cup ExampleTitles \cup LinkTitles

\* the most files the globs of the toc command match
MaxFiles == 2

\* the files of the toc command: one without marker, one with an empty marker pair,
\* the same once updated, and one with a placeholder and no heading
MarkerPairDoc == Join(<<TOC_START, <<>>, TOC_END, Chars("# A")>>)

CommandDocs ==
    {Chars("# A"), MarkerPairDoc, updateToc(MarkerPairDoc, defaultOptions), TOC_PLACEHOLDER}

\* the most articles push reads from the files
MaxArticles == 2

\* a footer file: its first line is the marker of updateArticleFooter
FooterFile == Join(<<Chars("# See"), Chars("## More")>>)

\* the articles of push: a published one with TOC markers and an old footer, a new
\* draft with TOC markers, and a published one without markers.  An article is its
\* content and what push reads of its front matter: whether it has an id, is
\* published, names an organization; hasChanged is set by the reconciliation.
PushArticles ==
    {[content |-> Join(<<TOC_START, TOC_END, Chars("# A"), Chars("# See"), Chars("old")>>),
      id |-> TRUE, published |-> TRUE, organization |-> TRUE, hasChanged |-> FALSE],
     [content |-> MarkerPairDoc,
      id |-> FALSE, published |-> FALSE, organization |-> FALSE, hasChanged |-> FALSE],
     [content |-> Chars("# A"),
      id |-> TRUE, published |-> TRUE, organization |-> TRUE, hasChanged |-> FALSE]}

PushOptionSets ==
    [devtoKey : BOOLEAN, dryRun : BOOLEAN, reconcile : BOOLEAN, checkImages : BOOLEAN,
     useOrganization : BOOLEAN, updateToc : BOOLEAN]

\* the most lines of a document made of fence lines
MaxFenceLines == 3

FENCE4 == <<BT, BT, BT, BT>>

\* fences of both characters and two lengths, a fence in a list item, a fence line
\* that also opens a comment, a heading and a comment closer
FenceLines ==
    {FENCE, FENCE4, Chars("~~~"), Chars("~~~~"), Chars("- ") \o FENCE,
     FENCE \o Chars(" <!--"), Chars("## Section 1"), Chars("-->")}

\* a block opened by four backticks: a shorter fence, a fence of tildes and a
\* heading inside it, an indented longer fence that closes it, and a heading after
FenceDoc ==
    Join(<<FENCE4, FENCE, Chars("~~~~"), Chars("# Title"), Chars("  ") \o FENCE4 \o <<BT>>,
           Chars("## Section 1")>>)

FenceDocs == {Join(ls) : ls \in SeqsUpTo(FenceLines, MaxFenceLines)} \cup {FenceDoc}

\* the most lines of a document composed under other options than the defaults
MaxComposeLines == 2

ComposeLines == {Chars("# A"), Chars("## B"), Chars("### C"), Chars("#### D")}

\* headings of four levels, none of level 1
DeepDoc ==
    Join(<<Chars("### C"), Chars("## B"), Chars("#### D"), Chars("##### E"), Chars("## F")>>)

ComposeDocs == {Join(ls) : ls \in SeqsUpTo(ComposeLines, MaxComposeLines)} \cup {DeepDoc}

\* the options a caller of generateTocOnly passes over the defaults
ComposeOptionSets ==
    {[defaultOptions EXCEPT !.maxLevel = m, !.trimTocIndent = t, !.indentChars = c,
                            !.indentSpaces = n] :
        m \in {2, 5}, t \in BOOLEAN, c \in {Chars("-*+"), Chars("-*")}, n \in {3, 2}}

\* the longest sequence of calls made on the loaded module
MaxCalls == 4

\* the titles and the documents of those calls
CallTitles == {TitleLink, TitleCode, TitleQuotes, <<EMOJI>> \o TitleSpaces}

CallDocs == {CodeBlockDoc}

---------------------------------------------------------------------------
(* The calls *)

\* the toc command is not running
NoCommand == disk = <<>> /\ fileNo = 0 /\ writes = <<>> /\ outcomes = <<>>

\* push is not running
NoPush ==
    /\ pushOptions = <<>>
    /\ articles = <<>>
    /\ articleNo = 0
    /\ saved = <<>>
    /\ sent = <<>>
    /\ results = <<>>
    /\ exitCode = 0

\* updateRemoteArticle is not running
NoRetry == request = <<>> /\ retries = 0 /\ requests = <<>> /\ response = <<>>

\* generateTocOnly(content) is entered: extractTocEntries has split the content
InitScan ==
    /\ pc = "scan"
    /\ content \in ScanDocs
    /\ lines = Split(content)
    /\ lineNo = 0
    /\ inCodeBlock = scanStart.inCodeBlock
    /\ codeBlockMarker = scanStart.codeBlockMarker
    /\ inHtmlComment = scanStart.inHtmlComment
    /\ entries = scanStart.entries
    /\ tocOptions = defaultOptions
    /\ toc = <<>>
    /\ needs = FALSE
    /\ updated = <<>>
    /\ updatedAgain = <<>>
    /\ title = <<>>
    /\ anchor = <<>>
    /\ lastIndex = regexesAtLoad
    /\ history = <<>>
    /\ NoCommand
    /\ NoPush
    /\ NoRetry

scanState ==
    [inCodeBlock |-> inCodeBlock, codeBlockMarker |-> codeBlockMarker,
     inHtmlComment |-> inHtmlComment, entries |-> entries]

\* one iteration of the for loop of extractTocEntries
ScanLine ==
    /\ pc = "scan"
    /\ lineNo < Len(lines)
    /\ LET st == scanLine(scanState, lines[lineNo + 1], tocOptions)
       IN  /\ inCodeBlock' = st.inCodeBlock
           /\ codeBlockMarker' = st.codeBlockMarker
           /\ inHtmlComment' = st.inHtmlComment
           /\ entries' = st.entries
    /\ lineNo' = lineNo + 1
    /\ lastIndex' = scanLineRegexes(scanState, lines[lineNo + 1], tocOptions, lastIndex)
    /\ UNCHANGED <<pc, content, lines, tocOptions, toc, needs, updated, updatedAgain, title, anchor,
                   history, commandVars, pushVars, retryVars>>

\* the loop is over: generateTocOnly composes the entries and returns
ComposeToc ==
    /\ pc = "scan"
    /\ lineNo = Len(lines)
    /\ toc' = generateTocMarkdown(entries, tocOptions)
    /\ pc' = "composed"
    /\ UNCHANGED <<content, scanVars, needs, updated, updatedAgain, title, anchor, lastIndex,
                   history, commandVars, pushVars, retryVars>>

NextScan == ScanLine \/ ComposeToc

SpecScan == InitScan /\ [][NextScan]_vars

\* generateTocOnly(content, options) is entered with options of the caller
InitCompose ==
    /\ pc = "scan"
    /\ content \in ComposeDocs
    /\ lines = Split(content)
    /\ lineNo = 0
    /\ inCodeBlock = scanStart.inCodeBlock
    /\ codeBlockMarker = scanStart.codeBlockMarker
    /\ inHtmlComment = scanStart.inHtmlComment
    /\ entries = scanStart.entries
    /\ tocOptions \in ComposeOptionSets
    /\ toc = <<>>
    /\ needs = FALSE
    /\ updated = <<>>
    /\ updatedAgain = <<>>
    /\ title = <<>>
    /\ anchor = <<>>
    /\ lastIndex = regexesAtLoad
    /\ history = <<>>
    /\ NoCommand
    /\ NoPush
    /\ NoRetry

SpecCompose == InitCompose /\ [][NextScan]_vars

\* generateTocOnly(content) is entered on a document of fence lines
InitFence ==
    /\ pc = "scan"
    /\ content \in FenceDocs
    /\ lines = Split(content)
    /\ lineNo = 0
    /\ inCodeBlock = scanStart.inCodeBlock
    /\ codeBlockMarker = scanStart.codeBlockMarker
    /\ inHtmlComment = scanStart.inHtmlComment
    /\ entries = scanStart.entries
    /\ tocOptions = defaultOptions
    /\ toc = <<>>
    /\ needs = FALSE
    /\ updated = <<>>
    /\ updatedAgain = <<>>
    /\ title = <<>>
    /\ anchor = <<>>
    /\ lastIndex = regexesAtLoad
    /\ history = <<>>
    /\ NoCommand
    /\ NoPush
    /\ NoRetry

SpecFence == InitFence /\ [][NextScan]_vars

\* a document is read
InitToc ==
    /\ pc = "read"
    /\ content \in TocDocs
    /\ lines = <<>>
    /\ lineNo = 0
    /\ inCodeBlock = FALSE
    /\ codeBlockMarker = <<>>
    /\ inHtmlComment = FALSE
    /\ entries = <<>>
    /\ tocOptions = defaultOptions
    /\ toc = <<>>
    /\ needs = FALSE
    /\ updated = <<>>
    /\ updatedAgain = <<>>
    /\ title = <<>>
    /\ anchor = <<>>
    /\ lastIndex = regexesAtLoad
    /\ history = <<>>
    /\ NoCommand
    /\ NoPush
    /\ NoRetry

CallNeedsTocUpdate ==
    /\ pc = "read"
    /\ needs' = needsTocUpdate(content)
    /\ pc' = "checked"
    /\ UNCHANGED <<content, scanVars, toc, updated, updatedAgain, title, anchor, lastIndex,
                   history, commandVars, pushVars, retryVars>>

CallUpdateToc ==
    /\ pc = "checked"
    /\ updated' = updateToc(content, defaultOptions)
    /\ lastIndex' = updateTocRegexes(content, defaultOptions, lastIndex)
    /\ pc' = "updated"
    /\ UNCHANGED <<content, scanVars, toc, needs, updatedAgain, title, anchor, history,
                   commandVars, pushVars, retryVars>>

\* the command is run again on its own output
CallUpdateTocAgain ==
    /\ pc = "updated"
    /\ updatedAgain' = updateToc(updated, defaultOptions)
    /\ lastIndex' = updateTocRegexes(updated, defaultOptions, lastIndex)
    /\ pc' = "updatedAgain"
    /\ UNCHANGED <<content, scanVars, toc, needs, updated, title, anchor, history,
                   commandVars, pushVars, retryVars>>

NextToc == CallNeedsTocUpdate \/ CallUpdateToc \/ CallUpdateTocAgain

SpecToc == InitToc /\ [][NextToc]_vars

InitAnchor ==
    /\ pc = "title"
    /\ title \in Titles
    /\ content = <<>>
    /\ lines = <<>>
    /\ lineNo = 0
    /\ inCodeBlock = FALSE
    /\ codeBlockMarker = <<>>
    /\ inHtmlComment = FALSE
    /\ entries = <<>>
    /\ tocOptions = defaultOptions
    /\ toc = <<>>
    /\ needs = FALSE
    /\ updated = <<>>
    /\ updatedAgain = <<>>
    /\ anchor = <<>>
    /\ lastIndex = regexesAtLoad
    /\ history = <<>>
    /\ NoCommand
    /\ NoPush
    /\ NoRetry

CallGenerateDevToAnchor ==
    /\ pc = "title"
    /\ anchor' = generateDevToAnchor(title)
    /\ lastIndex' = generateDevToAnchorCall(title, lastIndex).lastIndex
    /\ pc' = "anchor"
    /\ UNCHANGED <<content, scanVars, toc, needs, updated, updatedAgain, title, history,
                   commandVars, pushVars, retryVars>>

NextAnchor == CallGenerateDevToAnchor

SpecAnchor == InitAnchor /\ [][NextAnchor]_vars

\* the module is loaded and no exported function has been called yet
InitCalls ==
    /\ pc = "calls"
    /\ content = <<>>
    /\ lines = <<>>
    /\ lineNo = 0
    /\ inCodeBlock = FALSE
    /\ codeBlockMarker = <<>>
    /\ inHtmlComment = FALSE
    /\ entries = <<>>
    /\ tocOptions = defaultOptions
    /\ toc = <<>>
    /\ needs = FALSE
    /\ updated = <<>>
    /\ updatedAgain = <<>>
    /\ title = <<>>
    /\ anchor = <<>>
    /\ lastIndex = regexesAtLoad
    /\ history = <<>>
    /\ NoCommand
    /\ NoPush
    /\ NoRetry

\* a caller calls generateDevToAnchor(t)
AnchorCall ==
    /\ pc = "calls"
    /\ Len(history) < MaxCalls
    /\ \E t \in CallTitles :
         LET call == generateDevToAnchorCall(t, lastIndex)
         IN  /\ title' = t
             /\ anchor' = call.anchor
             /\ lastIndex' = call.lastIndex
             /\ history' = Append(history, [fn |-> "generateDevToAnchor", arg |-> t,
                                            result |-> call.anchor])
    /\ UNCHANGED <<pc, content, scanVars, toc, needs, updated, updatedAgain, commandVars,
                   pushVars, retryVars>>

\* a caller calls generateTocOnly(d)
TocOnlyCall ==
    /\ pc = "calls"
    /\ Len(history) < MaxCalls
    /\ \E d \in CallDocs :
         /\ content' = d
         /\ toc' = generateTocOnly(d, defaultOptions)
         /\ lastIndex' = extractTocEntriesRegexes(d, defaultOptions, lastIndex)
         /\ history' = Append(history, [fn |-> "generateTocOnly", arg |-> d,
                                        result |-> generateTocOnly(d, defaultOptions)])
    /\ UNCHANGED <<pc, scanVars, needs, updated, updatedAgain, title, anchor, commandVars,
                   pushVars, retryVars>>

\* a caller calls updateToc(d)
UpdateTocCall ==
    /\ pc = "calls"
    /\ Len(history) < MaxCalls
    /\ \E d \in CallDocs :
         /\ content' = d
         /\ updated' = updateToc(d, defaultOptions)
         /\ lastIndex' = updateTocRegexes(d, defaultOptions, lastIndex)
         /\ history' = Append(history, [fn |-> "updateToc", arg |-> d,
                                        result |-> updateToc(d, defaultOptions)])
    /\ UNCHANGED <<pc, scanVars, toc, needs, updatedAgain, title, anchor, commandVars,
                   pushVars, retryVars>>

NextCalls == AnchorCall \/ TocOnlyCall \/ UpdateTocCall

SpecCalls == InitCalls /\ [][NextCalls]_vars

\* updateTableOfContents is entered: globby has matched the files
InitCommand ==
    /\ pc = "toc"
    /\ disk \in SeqsUpTo(CommandDocs, MaxFiles) \cup {<<>>}
    /\ fileNo = 0
    /\ writes = <<>>
    /\ outcomes = <<>>
    /\ content = <<>>
    /\ lines = <<>>
    /\ lineNo = 0
    /\ inCodeBlock = FALSE
    /\ codeBlockMarker = <<>>
    /\ inHtmlComment = FALSE
    /\ entries = <<>>
    /\ tocOptions = defaultOptions
    /\ toc = <<>>
    /\ needs = FALSE
    /\ updated = <<>>
    /\ updatedAgain = <<>>
    /\ title = <<>>
    /\ anchor = <<>>
    /\ lastIndex = regexesAtLoad
    /\ history = <<>>
    /\ NoPush
    /\ NoRetry

\* no file matches: the command returns before the loop
NoMatchingFiles ==
    /\ pc = "toc"
    /\ Len(disk) = 0
    /\ pc' = "done"
    /\ UNCHANGED <<content, scanVars, toc, needs, updated, updatedAgain, title, anchor,
                   lastIndex, history, commandVars, pushVars, retryVars>>

\* ProcessFile with a write of every file that has a marker, changed or not
ProcessFile_writesUnchanged ==
    /\ pc = "toc"
    /\ fileNo < Len(disk)
    /\ \E readFails \in BOOLEAN, writeFails \in BOOLEAN :
       \E updatedContent \in {updateToc(disk[fileNo + 1], defaultOptions)} :
         LET file == fileNo + 1
             text == disk[file]
         IN  IF readFails
             THEN /\ outcomes' = Append(outcomes, "failed")
                  /\ UNCHANGED <<content, needs, updated, lastIndex, disk, writes>>
             ELSE /\ content' = text
                  /\ needs' = needsTocUpdate(text)
                  /\ IF ~needsTocUpdate(text)
                     THEN /\ outcomes' = Append(outcomes, "noMarkers")
                          /\ UNCHANGED <<updated, lastIndex, disk, writes>>
                     ELSE /\ updated' = updatedContent
                          /\ lastIndex' = updateTocRegexes(text, defaultOptions, lastIndex)
                          /\ writes' = Append(writes, [file |-> file, text |-> updatedContent])
                          /\ disk' = IF writeFails THEN disk
                                     ELSE [disk EXCEPT ![file] = updatedContent]
                          /\ outcomes' = Append(outcomes, IF writeFails THEN "failed"
                                                          ELSE "updated")
    /\ fileNo' = fileNo + 1
    /\ UNCHANGED <<pc, scanVars, toc, updatedAgain, title, anchor, history, pushVars, retryVars>>

\* one iteration of the for loop: the file is read, checked, updated and written;
\* fs.readFile and fs.writeFile may throw, which the catch of the iteration reports
ProcessFile ==
    /\ pc = "toc"
    /\ fileNo < Len(disk)
    /\ \E readFails \in BOOLEAN, writeFails \in BOOLEAN :
       \E updatedContent \in {updateToc(disk[fileNo + 1], defaultOptions)} :
         LET file == fileNo + 1
             text == disk[file]
         IN  IF readFails
             THEN /\ outcomes' = Append(outcomes, "failed")
                  /\ UNCHANGED <<content, needs, updated, lastIndex, disk, writes>>
             ELSE /\ content' = text
                  /\ needs' = needsTocUpdate(text)
                  /\ IF ~needsTocUpdate(text)
                     THEN /\ outcomes' = Append(outcomes, "noMarkers")
                          /\ UNCHANGED <<updated, lastIndex, disk, writes>>
                     ELSE /\ updated' = updatedContent
                          /\ lastIndex' = updateTocRegexes(text, defaultOptions, lastIndex)
                          /\ IF updatedContent # text
                             THEN /\ writes' = Append(writes, [file |-> file,
                                                               text |-> updatedContent])
                                  /\ disk' = IF writeFails THEN disk
                                             ELSE [disk EXCEPT ![file] = updatedContent]
                                  /\ outcomes' = Append(outcomes, IF writeFails THEN "failed"
                                                                  ELSE "updated")
                             ELSE /\ outcomes' = Append(outcomes, "upToDate")
                                  /\ UNCHANGED <<disk, writes>>
    /\ fileNo' = fileNo + 1
    /\ UNCHANGED <<pc, scanVars, toc, updatedAgain, title, anchor, history, pushVars, retryVars>>

\* the loop is over: the counts are printed
PrintSummary ==
    /\ pc = "toc"
    /\ Len(disk) > 0
    /\ fileNo = Len(disk)
    /\ pc' = "done"
    /\ UNCHANGED <<content, scanVars, toc, needs, updated, updatedAgain, title, anchor,
                   lastIndex, history, commandVars, pushVars, retryVars>>

NextCommand == NoMatchingFiles \/ ProcessFile \/ PrintSummary

SpecCommand == InitCommand /\ [][NextCommand]_vars

\* push(files, options) is entered; articles is what getArticlesFromFiles will return
InitPush ==
    /\ pc = "push"
    /\ pushOptions \in PushOptionSets
    /\ articles \in SeqsUpTo(PushArticles, MaxArticles) \cup {<<>>}
    /\ articleNo = 0
    /\ saved = <<>>
    /\ sent = <<>>
    /\ results = <<>>
    /\ exitCode = 0
    /\ content = <<>>
    /\ lines = <<>>
    /\ lineNo = 0
    /\ inCodeBlock = FALSE
    /\ codeBlockMarker = <<>>
    /\ inHtmlComment = FALSE
    /\ entries = <<>>
    /\ tocOptions = defaultOptions
    /\ toc = <<>>
    /\ needs = FALSE
    /\ updated = <<>>
    /\ updatedAgain = <<>>
    /\ title = <<>>
    /\ anchor = <<>>
    /\ lastIndex = regexesAtLoad
    /\ history = <<>>
    /\ NoCommand
    /\ NoRetry

\* the checks before any article is touched: the API key, the repository, the branch
\* and the list of articles
PushStart ==
    /\ pc = "push"
    /\ \E repository \in BOOLEAN, branch \in BOOLEAN :
         IF ~pushOptions.devtoKey \/ ~repository \/ ~branch
         THEN pc' = "returnedNull" /\ exitCode' = -1
         ELSE /\ pc' = IF Len(articles) = 0 THEN "returned" ELSE "organization"
              /\ exitCode' = exitCode
    /\ UNCHANGED <<content, scanVars, toc, needs, updated, updatedAgain, title, anchor,
                   lastIndex, history, commandVars, pushOptions, articles, articleNo, saved,
                   sent, results, retryVars>>

\* the organization step: with useOrganization and an organization found, every
\* article without organization gets it and is saved unless the run is dry; a call
\* that throws (the n-th save, or the request) ends push in its catch
SetOrganization ==
    /\ pc = "organization"
    /\ \E orgInfo \in {"none", "found", "throws"} :
         LET missing == withoutOrganization(articles)
         IN  IF ~pushOptions.useOrganization \/ orgInfo = "none"
             THEN pc' = "remote" /\ UNCHANGED <<articles, saved, exitCode>>
             ELSE IF orgInfo = "throws"
             THEN pc' = "returnedNull" /\ exitCode' = -1 /\ UNCHANGED <<articles, saved>>
             ELSE \E done \in 0..Len(missing), thrown \in BOOLEAN :
                    /\ thrown => done > 0
                    /\ ~thrown => done = Len(missing)
                    /\ articles' = [i \in 1..Len(articles) |->
                                       IF \E n \in 1..done : missing[n] = i
                                       THEN [articles[i] EXCEPT !.organization = TRUE]
                                       ELSE articles[i]]
                    /\ saved' = IF pushOptions.dryRun THEN saved
                                ELSE saved \o [n \in 1..done |->
                                                  [file |-> missing[n],
                                                   content |-> articles[missing[n]].content]]
                    /\ pc' = IF thrown THEN "returnedNull" ELSE "remote"
                    /\ exitCode' = IF thrown THEN -1 ELSE exitCode
    /\ UNCHANGED <<content, scanVars, toc, needs, updated, updatedAgain, title, anchor,
                   lastIndex, history, commandVars, pushOptions, articleNo, sent, results,
                   retryVars>>

\* getRemoteArticles, then the reconciliation: with the reconcile option an article
\* without id takes the id of the remote article with its title, if there is one
GetRemoteArticles ==
    /\ pc = "remote"
    /\ \E throws \in BOOLEAN, onRemote \in SUBSET {i \in 1..Len(articles) : ~articles[i].id} :
         IF throws
         THEN pc' = "returnedNull" /\ exitCode' = -1 /\ UNCHANGED articles
         ELSE /\ pc' = "process"
              /\ exitCode' = exitCode
              /\ articles' = [i \in 1..Len(articles) |->
                                 IF pushOptions.reconcile /\ i \in onRemote
                                 THEN [articles[i] EXCEPT !.id = TRUE, !.hasChanged = TRUE]
                                 ELSE articles[i]]
    /\ UNCHANGED <<content, scanVars, toc, needs, updated, updatedAgain, title, anchor,
                   lastIndex, history, commandVars, pushOptions, articleNo, saved, sent,
                   results, retryVars>>

\* one iteration of the for loop of processArticles.  The environment decides the
\* footer file (DEVTO_FOOTER_FILE unset, naming a missing file, or FooterFile), how the
\* remote copy compares, whether an image is offline, and which call of the try
\* block throws; a choice is offered only where the code consults it.  The diagram
\* and image-url rewriting of the pushed copy is left out.
ProcessArticle ==
    /\ pc = "process"
    /\ articleNo < Len(articles)
    /\ \E footerFile \in {"unset", "missing", "found"} :
       \E local \in {localUpdate(articles[articleNo + 1], footerFile, FooterFile, pushOptions)} :
       \E remote \in {"same", "differs", "unknown"}, offline \in BOOLEAN,
          thrower \in {"none", "checkImages", "updateRemoteArticle"} :
         LET file == articleNo + 1
             article == articles[file]
             withFooter == local.withFooter
             tocRuns == local.tocRuns
             updatedContent == local.updatedContent
             footerWasUpdated == withFooter.content # article.content
             tocWasUpdated == tocRuns /\ updatedContent # withFooter.content
             final == IF tocWasUpdated THEN [withFooter EXCEPT !.content = updatedContent]
                      ELSE withFooter
             savedFirst == IF savesLocalUpdate(footerWasUpdated, tocWasUpdated, pushOptions)
                           THEN Append(saved, [file |-> file, content |-> final.content])
                           ELSE saved
             needsUpdate == ~final.id \/ remote = "differs"
             checkThrows == pushOptions.checkImages /\ thrower = "checkImages"
             offlineImage == pushOptions.checkImages /\ ~checkThrows /\ offline
             sends == ~checkThrows /\ ~pushOptions.dryRun /\ ~offlineImage
             thrown == checkThrows \/ (sends /\ thrower = "updateRemoteArticle")
             status == IF ~needsUpdate
                       THEN (IF final.hasChanged THEN "reconciled" ELSE "upToDate")
                       ELSE IF thrown THEN "failed"
                       ELSE IF offlineImage THEN "imageOffline"
                       ELSE IF final.id THEN "updated" ELSE "created"
         IN  /\ remote = "unknown" => final.id
             /\ offline \/ thrower = "checkImages" => pushOptions.checkImages /\ needsUpdate
             /\ thrower = "updateRemoteArticle" => needsUpdate /\ sends
             /\ content' = withFooter.content
             /\ needs' = tocRuns
             /\ updated' = IF tocRuns THEN updatedContent ELSE updated
             /\ lastIndex' = IF tocRuns
                             THEN updateTocRegexes(withFooter.content, defaultOptions, lastIndex)
                             ELSE lastIndex
             /\ IF footerFile = "missing" /\ article.published
                THEN /\ pc' = "returnedNull"
                     /\ exitCode' = -1
                     /\ UNCHANGED <<saved, sent, results, articleNo>>
                ELSE IF final.id /\ remote = "unknown"
                THEN /\ pc' = "returnedNull"
                     /\ exitCode' = -1
                     /\ saved' = savedFirst
                     /\ UNCHANGED <<sent, results, articleNo>>
                ELSE /\ sent' = IF needsUpdate /\ sends
                                THEN Append(sent, [file |-> file, content |-> final.content])
                                ELSE sent
                     /\ saved' = IF needsUpdate /\ sends /\ ~thrown
                                 THEN Append(savedFirst, [file |-> file, content |-> final.content])
                                 ELSE savedFirst
                     /\ results' = Append(results, [file |-> file, status |-> status,
                                                    content |-> final.content])
                     /\ IF stopsOnStatus(status)
                        THEN pc' = "stopped" /\ exitCode' = -1 /\ articleNo' = articleNo
                        ELSE pc' = pc /\ exitCode' = exitCode /\ articleNo' = articleNo + 1
    /\ UNCHANGED <<scanVars, toc, updatedAgain, title, anchor, history, commandVars,
                   pushOptions, articles, retryVars>>

\* processArticles has returned its results: push sets the exit code and returns them
FinishPush ==
    /\ \/ pc = "process" /\ articleNo = Len(articles)
       \/ pc = "stopped"
    /\ exitCode' = IF \E i \in 1..Len(results) : results[i].status \in {"failed", "imageOffline"}
                   THEN -1 ELSE exitCode
    /\ pc' = "returned"
    /\ UNCHANGED <<content, scanVars, toc, needs, updated, updatedAgain, title, anchor,
                   lastIndex, history, commandVars, pushOptions, articles, articleNo, saved,
                   sent, results, retryVars>>

NextPush == PushStart \/ SetOrganization \/ GetRemoteArticles \/ ProcessArticle \/ FinishPush

SpecPush == InitPush /\ [][NextPush]_vars

---------------------------------------------------------------------------
(* updateRemoteArticle: one request, retried when the API limits the rate *)

maxRetries == 3

\* what update() sends for an article: a PUT on the article when it has an id, a POST
\* otherwise, with the organization_id when the front matter holds one
requestOf(remoteArticle) ==
    [method |-> IF remoteArticle.id THEN "PUT" ELSE "POST",
     organization_id |-> remoteArticle.organization_id]

\* the articles updateRemoteArticle is called with
RemoteArticles == [id : BOOLEAN, organization_id : BOOLEAN]

\* the ways a request ends: the body of the response, or a RequestError with the
\* status code of its response (0: there was no response)
Body == [kind |-> "body", statusCode |-> 200]

RequestErrors == [kind : {"RequestError"}, statusCode : {429, 500, 422, 0}]

\* the error of matter.stringify, thrown before the request is made
StringifyError == [kind |-> "Error", statusCode |-> 0]

\* the request is made and has not ended
Pending == [kind |-> "pending", statusCode |-> 0]

\* the catch of retryRequest retrying after any RequestError
rethrows_unlessRequestError(error, retriesLeft) ==
    retriesLeft = 0 \/ error.kind # "RequestError"

\* the test of the catch of retryRequest: the error is thrown again
rethrows(error, retriesLeft) ==
    retriesLeft = 0 \/ ~(error.kind = "RequestError" /\ error.statusCode = 429)

\* updateRemoteArticle(article, devtoKey) is called: retryRequest(update, maxRetries)
InitRetry ==
    /\ pc = "retryRequest"
    /\ \E remoteArticle \in RemoteArticles : request = requestOf(remoteArticle)
    /\ retries = maxRetries
    /\ requests = <<>>
    /\ response = <<>>
    /\ content = <<>>
    /\ lines = <<>>
    /\ lineNo = 0
    /\ inCodeBlock = FALSE
    /\ codeBlockMarker = <<>>
    /\ inHtmlComment = FALSE
    /\ entries = <<>>
    /\ tocOptions = defaultOptions
    /\ toc = <<>>
    /\ needs = FALSE
    /\ updated = <<>>
    /\ updatedAgain = <<>>
    /\ title = <<>>
    /\ anchor = <<>>
    /\ lastIndex = regexesAtLoad
    /\ history = <<>>
    /\ NoCommand
    /\ NoPush

\* retryRequest calls fn: update() builds the markdown, where matter.stringify may
\* throw, and makes the request; the error of stringify is not a RequestError and is
\* thrown again by both catches
CallUpdate ==
    /\ pc = "retryRequest"
    /\ \E stringifyThrows \in BOOLEAN :
          IF stringifyThrows
          THEN /\ rethrows(StringifyError, retries)
               /\ pc' = "thrown"
               /\ response' = StringifyError
               /\ UNCHANGED requests
          ELSE /\ pc' = "request"
               /\ requests' = Append(requests, [request |-> request, outcome |-> Pending])
               /\ UNCHANGED response
    /\ UNCHANGED <<content, scanVars, toc, needs, updated, updatedAgain, title, anchor,
                   lastIndex, history, commandVars, pushVars, request, retries>>

\* the request ends: its body is returned, or its error is caught by update, thrown
\* again and caught by retryRequest, which throws it again or waits before a retry
RequestEnds ==
    /\ pc = "request"
    /\ \E outcome \in {Body} \cup RequestErrors :
          /\ requests' = [requests EXCEPT ![Len(requests)].outcome = outcome]
          /\ IF outcome.kind = "body"
             THEN pc' = "returned" /\ response' = outcome
             ELSE IF rethrows(outcome, retries)
             THEN pc' = "thrown" /\ response' = outcome
             ELSE pc' = "delay" /\ UNCHANGED response
    /\ UNCHANGED <<content, scanVars, toc, needs, updated, updatedAgain, title, anchor,
                   lastIndex, history, commandVars, pushVars, request, retries>>

\* the timer of delay(retryDelay) fires: retryRequest(fn, retries - 1)
DelayEnds ==
    /\ pc = "delay"
    /\ retries' = retries - 1
    /\ pc' = "retryRequest"
    /\ UNCHANGED <<content, scanVars, toc, needs, updated, updatedAgain, title, anchor,
                   lastIndex, history, commandVars, pushVars, request, requests, response>>

NextRetry == CallUpdate \/ RequestEnds \/ DelayEnds

SpecRetry == InitRetry /\ [][NextRetry]_vars

\* every request made ends and every timer set fires
SpecRetryFair == SpecRetry /\ WF_vars(NextRetry)

---------------------------------------------------------------------------
Init ==
    InitScan \/ InitCompose \/ InitFence \/ InitToc \/ InitAnchor \/ InitCalls \/ InitCommand
        \/ InitPush \/ InitRetry

Next == NextScan \/ NextToc \/ NextAnchor \/ NextCalls \/ NextCommand \/ NextPush \/ NextRetry

Spec == Init /\ [][Next]_vars

---------------------------------------------------------------------------
(* Vocabulary of the claims *)

\* the entries updateToc composes for document c: those of c without its TOC block
tocEntriesOf(c) == extractTocEntries(removeExistingToc(c).content, defaultOptions)

isStartLine(l) == isTocStart(Trim(l))
isEndLine(l) == isTocEnd(Trim(l))
isPlaceholderLine(l) == Trim(l) = TOC_PLACEHOLDER
isBlank(l) == Trim(l) = <<>>

---------------------------------------------------------------------------
(* C1, C2, C6-C9: the placement engine, under SpecToc *)

\* C1: updateToc is idempotent on documents with headings: whenever updateToc finds
\* at least one heading in the document, updating the updated text changes nothing.
C1_Idempotent ==
    (pc = "updatedAgain" /\ Len(tocEntriesOf(content)) > 0) => updatedAgain = updated

\* C2 as stated: a document in which the scanner finds no heading is returned unchanged.
C2_NoHeadingsInDocument ==
    (pc = "updated" /\ Len(extractTocEntries(content, defaultOptions)) = 0)
        => updated = content

\* C2 as amended: a document in which the scanner finds no heading once the existing
\* TOC block or placeholder is taken out is returned unchanged, block and placeholder
\* included.
C2_NoHeadingsOutsideToc ==
    (pc = "updated" /\ Len(tocEntriesOf(content)) = 0) => updated = content

\* C2's case: a document that has a TOC block or a placeholder and no heading was updated
C2_Witness ==
    /\ pc = "updated"
    /\ findTocPosition(content).found
    /\ Len(tocEntriesOf(content)) = 0
    /\ updated = content

\* the document has exactly one start marker line, at 0-based index s, and e is the
\* first end marker line after it (a marker line proper, not a heading that happens to
\* hold the words 'TOC end')
IsMarkerPair(ls, s, e) ==
    /\ s < e
    /\ isStartLine(ls[s + 1])
    /\ isEndLine(ls[e + 1])
    /\ ~parseHeader(ls[e + 1]).matched
    /\ \A i \in 0..(Len(ls) - 1) : isStartLine(ls[i + 1]) => i = s
    /\ \A i \in (s + 1)..(e - 1) : ~isEndLine(ls[i + 1])

\* the lines us are the lines ls with the span s..e replaced by one marker-wrapped block
BlockReplaced(ls, s, e, us) ==
    LET after == Len(ls) - (e + 1)
        block == SubSeq(us, s + 1, Len(us) - after)
    IN  /\ Len(us) >= s + after + 2
        /\ SubSeq(us, 1, s) = SubSeq(ls, 1, s)
        /\ SubSeq(us, Len(us) - after + 1, Len(us)) = SubSeq(ls, e + 2, Len(ls))
        /\ block[1] = TOC_START
        /\ block[Len(block)] = TOC_END
        /\ Cardinality({i \in 1..Len(block) : isStartLine(block[i])}) = 1
        /\ Cardinality({i \in 1..Len(block) : block[i] = TOC_END}) = 1

\* C6: when the document has a start/end marker pair and a heading outside it, updateToc
\* replaces exactly that block: the lines before the start marker and after the end
\* marker are kept in place and order, and one new block stands where the old one began.
C6_ReplacesOnlyTheBlock ==
    pc = "updated" =>
        \A s, e \in 0..(Len(Split(content)) - 1) :
            (/\ IsMarkerPair(Split(content), s, e)
             /\ Len(extractTocEntries(
                        Join(Slice(Split(content), 0, s)
                             \o Slice(Split(content), e + 1, Len(Split(content)))),
                        defaultOptions)) > 0)
                => BlockReplaced(Split(content), s, e, Split(updated))

\* the lines begin with a front-matter block that closes at 1-based line k
IsFrontMatter(ls, k) ==
    /\ k >= 2
    /\ k <= Len(ls)
    /\ ls[1] = Chars("---")
    /\ ls[k] = Chars("---")
    /\ \A i \in 2..(k - 1) : ls[i] # Chars("---")

\* C7: when the document has no TOC block or placeholder, begins with a front-matter
\* block and has a heading, the result begins with that front-matter block and the
\* new TOC block comes right after its closing line.
C7_AfterFrontMatter ==
    (pc = "updated" /\ ~findTocPosition(content).found /\ Len(tocEntriesOf(content)) > 0)
        => \A k \in 1..Len(Split(content)) :
               IsFrontMatter(Split(content), k)
                   => /\ SubSeq(Split(updated), 1, k) = SubSeq(Split(content), 1, k)
                      /\ \E j \in (k + 1)..Len(Split(updated)) :
                             /\ isStartLine(Split(updated)[j])
                             /\ \A i \in (k + 1)..(j - 1) : isBlank(Split(updated)[i])

\* C8: the text updateToc returns for a document with headings and no existing TOC
\* holds the Liquid markers '{%- # TOC start' and '{%- # TOC end -%}'.
C8_LiquidMarkers ==
    (pc = "updated" /\ ~findTocPosition(content).found /\ Len(tocEntriesOf(content)) > 0)
        => /\ Includes(updated, Chars("{%- # TOC start"))
           /\ Includes(updated, Chars("{%- # TOC end -%}"))

\* a line that is the placeholder, or that begins like a start marker and holds 'TOC start'
HasRecognizableMarker(c) ==
    \E i \in 1..Len(Split(c)) : isPlaceholderLine(Split(c)[i]) \/ isStartLine(Split(c)[i])

\* C9: needsTocUpdate answers true exactly for the documents that hold a line the
\* marker search of updateToc recognizes (the placeholder or a start marker).
C9_NeedsIffMarker ==
    pc = "checked" => (needs <=> HasRecognizableMarker(content))

---------------------------------------------------------------------------
(* C3-C5: the scanner and the composer, under SpecScan *)

\* the line opens a fence: after a list prefix it begins with three or more backticks
\* or tildes
isFenceLine(l) == isCodeBlockMarker(l) # <<>>

\* the first line after 1-based index j whose trimmed content starts with the fence
\* opened at line j; 0 if there is none
closingFence(ls, j) ==
    LET closers == {k \in (j + 1)..Len(ls) : StartsWith(Trim(ls[k]), isCodeBlockMarker(ls[j]))}
    IN  IF closers = {} THEN 0 ELSE MinOf(closers)

RECURSIVE fencedFrom(_, _, _)
\* the 1-based indices of the lines inside the fenced blocks that open at or after
\* line i; a block never closed counts when unclosed is TRUE
fencedFrom(ls, i, unclosed) ==
    IF i > Len(ls) THEN {}
    ELSE IF ~isFenceLine(ls[i]) THEN fencedFrom(ls, i + 1, unclosed)
    ELSE IF closingFence(ls, i) = 0 THEN (IF unclosed THEN (i + 1)..Len(ls) ELSE {})
    ELSE ((i + 1)..(closingFence(ls, i) - 1)) \cup fencedFrom(ls, closingFence(ls, i) + 1, unclosed)

\* no line of the document opens an HTML comment
NoCommentOpener(ls) == \A i \in 1..Len(ls) : ~Includes(ls[i], HTML_COMMENT_START)

toContain(s, p) == Includes(s, Chars(p))

RECURSIVE headingEntries(_, _, _)
\* the entries of the headings of level 1 and 2 among the lines i.. of ls whose index
\* is not in the set skip, in document order
headingEntries(ls, i, skip) ==
    IF i > Len(ls) THEN <<>>
    ELSE IF i \notin skip /\ parseHeader(ls[i]).matched /\ parseHeader(ls[i]).level <= 2
         THEN <<tocEntry(parseHeader(ls[i]))>> \o headingEntries(ls, i + 1, skip)
         ELSE headingEntries(ls, i + 1, skip)

\* the TOC rows list the entries one for one
RowsListEntries(rows, es) ==
    IF es = <<>> THEN rows = <<>>
    ELSE /\ Len(Split(rows)) = Len(es)
         /\ \A i \in 1..Len(es) :
                Includes(Split(rows)[i],
                         Chars("[") \o es[i].title \o Chars("](#") \o es[i].link \o Chars(")"))

C5_ListsLevelThree ==
    (pc = "composed" /\ content = HeadersDoc)
        => /\ toContain(toc, "[Title](#title)")
           /\ toContain(toc, "[Section 1](#section-1)")
           /\ toContain(toc, "[Subsection](#subsection)")
           /\ toContain(toc, "[Section 2](#section-2)")

---------------------------------------------------------------------------
(* C10: the anchor slugifier, under SpecAnchor *)

\* the twelve steps in the listed order, each by the helper the source names for it
ReferencePipeline(t) ==
    LET lowered == toLowerCase(t)
        codeEscaped == escapeInlineCode(lowered)
        tagsStripped == stripHtmlTags(codeEscaped)
        linksCollapsed == stripMarkdownLinks(tagsStripped)
        escaped == escapeHtmlEntities(linksCollapsed)
        noEmoji == RemoveChars(escaped, EMOJI_CHARS)
        trimmed == Trim(noEmoji)
        rawMarked == replaceBackticksWithRawMarker(trimmed)
        noPunctuation == RemoveChars(rawMarked, PUNCTUATION)
        dashed == spacesToDash(noPunctuation)
        collapsed == concatDashes(dashed)
    IN  stripDashes(collapsed)

\* C10: the anchor of every title is the result of the twelve steps in the listed
\* order, and the six titles of the claim give the six anchors it lists.
C10_Pipeline ==
    pc = "anchor" =>
        /\ anchor = ReferencePipeline(title)
        /\ title = TitleHelloWorld => anchor = Chars("hello-world")
        /\ title = TitleAwesome => anchor = Chars("its-awesome")
        /\ title = TitleAmpersand => anchor = Chars("hello-amp-goodbye")
        /\ title = TitleLink => anchor = Chars("check-out-bitdowntoc")
        /\ title = TitleCode => anchor = Chars("code-raw-lttaggt-endraw-here")
        /\ title = TitleBold => anchor = Chars("some-bold-text")

\* C10's case: the title with a code span that holds a tag was slugified
C10_Witness ==
    /\ pc = "anchor"
    /\ title = TitleCode
    /\ anchor = Chars("code-raw-lttaggt-endraw-here")

---------------------------------------------------------------------------
(* C11: the regex constants keep no state between calls, under SpecCalls *)

\* the calls of generateDevToAnchor among the calls made so far
anchorCalls == {i \in 1..Len(history) : history[i].fn = "generateDevToAnchor"}

\* C11: generateDevToAnchor is total and deterministic.  Every call made so far has
\* returned a string; two calls made on the same title have returned the same anchor,
\* whatever calls of generateDevToAnchor, generateTocOnly and updateToc were made
\* before and between them; and no call leaves a regex constant with a lastIndex
\* other than the 0 it had when the module was loaded.
C11_Deterministic ==
    /\ \A i \in anchorCalls : history[i].result \in Seq(STRING)
    /\ \A i, j \in anchorCalls :
          history[i].arg = history[j].arg => history[i].result = history[j].result
    /\ lastIndex = regexesAtLoad

\* a title is slugified to a non-empty anchor, then a document is scanned or updated
\* and another title is slugified, then the first title is slugified again
C11_Witness ==
    \E i, j, k, l \in 1..Len(history) :
        /\ i < j /\ i < k /\ j < l /\ k < l
        /\ history[i].fn = "generateDevToAnchor"
        /\ history[l].fn = "generateDevToAnchor"
        /\ history[i].arg = history[l].arg
        /\ history[i].result # <<>>
        /\ history[j].fn \in {"generateTocOnly", "updateToc"}
        /\ history[k].fn = "generateDevToAnchor"
        /\ history[k].arg # history[i].arg

---------------------------------------------------------------------------
(* C12: duplicate titles, under SpecScan *)

\* the 1-based indices of the lines of ls that are headings of level 1 or 2 outside
\* the fenced blocks
listedLines(ls) ==
    {i \in 1..Len(ls) : /\ i \notin fencedFrom(ls, 1, TRUE)
                        /\ parseHeader(ls[i]).matched
                        /\ parseHeader(ls[i]).level <= 2}

\* C12: anchors are never de-duplicated.  Entries with the same title always carry the
\* same anchor, and the anchor of 'Section 1' is 'section-1' at every occurrence; in a
\* scanned document without comments the n-th heading of level 1 or 2 outside the
\* fenced blocks is the n-th entry, with the anchor of its title alone, so that a
\* title occurring k times is listed k times; and the rows of entries with the same
\* title and level are the same text.
C12_NoDeduplication ==
    /\ \A i, j \in 1..Len(entries) :
          entries[i].title = entries[j].title => entries[i].link = entries[j].link
    /\ \A i \in 1..Len(entries) :
          entries[i].title = Chars("Section 1") => entries[i].link = Chars("section-1")
    /\ (pc = "composed" /\ NoCommentOpener(lines))
          => /\ Len(entries) = Cardinality(listedLines(lines))
             /\ \A i \in listedLines(lines) :
                    LET n == Cardinality({j \in listedLines(lines) : j <= i})
                    IN  /\ entries[n].title = parseHeader(lines[i]).title
                        /\ entries[n].link = generateDevToAnchor(parseHeader(lines[i]).title)
             /\ \A i, j \in 1..Len(entries) :
                    entries[i] = entries[j] => Split(toc)[i] = Split(toc)[j]

\* C12's case: a document with the heading 'Section 1' at its first and its last line
\* and another heading between them was scanned, and its TOC has three rows
C12_Witness ==
    /\ pc = "composed"
    /\ Len(lines) >= 3
    /\ lines[1] = Chars("## Section 1")
    /\ lines[Len(lines)] = Chars("## Section 1")
    /\ \E i \in 2..(Len(lines) - 1) : lines[i] = Chars("# Title")
    /\ Len(entries) = 3
    /\ entries[1].link = entries[3].link
    /\ Len(Split(toc)) = 3

---------------------------------------------------------------------------
(* C13, C16: links and backticks in the slugifier, under SpecAnchor *)

\* C13: the anchor of a title that holds a markdown link is the anchor of the title
\* with each link replaced by its text.
C13_LinkCollapsed ==
    (pc = "anchor" /\ stripMarkdownLinks(title) # title)
        => anchor = generateDevToAnchor(stripMarkdownLinks(title))

\* the anchor of title t when each backtick is replaced by the marker of its position
\* among the backticks of t: the code spans are escaped (which keeps every backtick),
\* the running counter of replaceBackticksWithRawMarker turns the n-th backtick into
\* its marker, and the other steps follow
positionalAnchor(t) ==
    LET s2 == replaceBackticksWithRawMarker(escapeInlineCode(toLowerCase(t)))
        s4 == stripMarkdownLinks(stripHtmlTags(s2))
        s7 == Trim(RemoveChars(escapeHtmlEntities(s4), EMOJI_CHARS))
    IN  stripDashes(concatDashes(spacesToDash(RemoveChars(s7, PUNCTUATION))))

\* C16: the backtick replacement is positional over the original title: the anchor is
\* the one obtained when the n-th backtick of the title becomes ' raw ' for n odd and
\* ' endraw ' for n even.
C16_PositionalBackticks ==
    pc = "anchor" => anchor = positionalAnchor(title)

---------------------------------------------------------------------------
(* C14: the toc command, under SpecCommand *)

\* C14: the toc command calls fs.writeFile only for the file of the current iteration,
\* only when needsTocUpdate is true for the text read and updateToc returned another
\* text, and with that text; an iteration on a file for which needsTocUpdate is false
\* (reported as without TOC markers) or which updateToc leaves as it is (up to date)
\* writes nothing and leaves the disk as it is; and every iteration, failed or not,
\* moves on to the next file, so that the summary is printed with one report per file.
C14_WritesOnlyUpdates ==
    /\ [][writes' # writes
            => /\ pc = "toc"
               /\ needsTocUpdate(disk[fileNo + 1])
               /\ updateToc(disk[fileNo + 1], defaultOptions) # disk[fileNo + 1]
               /\ writes' = Append(writes,
                                   [file |-> fileNo + 1,
                                    text |-> updateToc(disk[fileNo + 1], defaultOptions)])]_vars
    /\ [][(/\ pc = "toc"
           /\ fileNo < Len(disk)
           /\ \/ ~needsTocUpdate(disk[fileNo + 1])
              \/ updateToc(disk[fileNo + 1], defaultOptions) = disk[fileNo + 1])
            => writes' = writes /\ disk' = disk]_vars
    /\ [][disk' # disk
            => /\ writes' # writes
               /\ disk' = [disk EXCEPT ![fileNo + 1] = writes'[Len(writes')].text]]_vars
    /\ [][(pc = "toc" /\ fileNo < Len(disk))
            => fileNo' = fileNo + 1 /\ Len(outcomes') = fileNo' /\ pc' = "toc"]_vars
    /\ [](pc = "done" => Len(outcomes) = Len(disk))

\* C14's case: two files were processed; reading or writing the first one failed and
\* the second one was written with its updated text
C14_Witness ==
    /\ pc = "done"
    /\ outcomes = <<"failed", "updated">>
    /\ writes # <<>>
    /\ writes[Len(writes)].file = 2
    /\ disk[2] = writes[Len(writes)].text
    /\ needsTocUpdate(disk[1])

---------------------------------------------------------------------------
(* C15: the dry run of push, under SpecPush *)

\* C15: when push runs with dryRun set, saveArticleToFile and updateRemoteArticle are
\* never called: at every point of the run no call of either has been made.
C15_DryRunChangesNothing ==
    pushOptions.dryRun => saved = <<>> /\ sent = <<>>

\* C15's case: a dry run went through the three places that save or send: a new
\* article was given the organization, its TOC was updated in memory, and it was
\* reported as created
C15_Witness ==
    /\ pc = "returned"
    /\ pushOptions.dryRun
    /\ pushOptions.updateToc
    /\ pushOptions.useOrganization
    /\ Len(results) = Len(articles)
    /\ \E i \in 1..Len(articles) :
          /\ ~articles[i].id
          /\ articles[i].organization
          /\ results[i].status = "created"
          /\ results[i].content # articles[i].content

---------------------------------------------------------------------------
(* C17: the composer, under SpecCompose *)

\* the line of the TOC for an entry whose heading has the level L
tocLine(entry, L, minLevel) ==
    Spaces((L - minLevel) * tocOptions.indentSpaces)
    \o <<tocOptions.indentChars[((L - minLevel) % Len(tocOptions.indentChars)) + 1]>>
    \o Chars(" [") \o entry.title \o Chars("](#") \o entry.link \o Chars(")")

\* C17: the composed markup is empty for no entries; otherwise, split at its
\* newlines, it is one line per entry in order (so no trailing newline), the line of
\* a heading of level L being (L - minLevel) * indentSpaces spaces, the bullet
\* indentChars[(L - minLevel) mod length], then " [title](#anchor)", with minLevel
\* the smallest level of the entries under trimTocIndent and 1 otherwise; under
\* trimTocIndent the shallowest heading's line starts with the first bullet.
C17_ComposedLines ==
    pc = "composed" =>
        IF Len(entries) = 0 THEN toc = <<>>
        ELSE LET level(i) == entries[i].indent + 1
                 minLevel == IF tocOptions.trimTocIndent
                             THEN MinOf({level(i) : i \in 1..Len(entries)})
                             ELSE 1
                 tocLines == Split(toc)
             IN  /\ Len(tocLines) = Len(entries)
                 /\ \A i \in 1..Len(entries) :
                       /\ tocLines[i] = tocLine(entries[i], level(i), minLevel)
                       /\ tocOptions.trimTocIndent /\ level(i) = minLevel
                            => tocLines[i][1] = tocOptions.indentChars[1]

\* C17's case: a document without a heading of level 1 was composed with trimming
\* on, and one of its headings lies deep enough for the bullets to start over
C17_Witness ==
    /\ pc = "composed"
    /\ tocOptions.trimTocIndent
    /\ Len(entries) > 1
    /\ \A i \in 1..Len(entries) : entries[i].indent > 0
    /\ \E i, j \in 1..Len(entries) :
          entries[i].indent - entries[j].indent >= Len(tocOptions.indentChars)

---------------------------------------------------------------------------
(* C18: the two skipping states of the scanner, under SpecScan *)

\* C18: the scanner is never inside a code block and inside a comment at once, and
\* a line seen in either state starts no nested transition: a step taken inside a
\* code block does not enter the comment state, a step taken inside a comment does
\* not enter the code-block state, and neither adds an entry.
C18_NoNestedTransition ==
    /\ [](~(inCodeBlock /\ inHtmlComment))
    /\ [][/\ inCodeBlock => ~inHtmlComment' /\ entries' = entries
          /\ inHtmlComment => ~inCodeBlock' /\ entries' = entries]_vars

\* C18's case: NestedDoc was scanned to its end; only the heading outside the code
\* block and the comment was listed
C18_Witness ==
    /\ pc = "composed"
    /\ content = NestedDoc
    /\ ~inCodeBlock
    /\ ~inHtmlComment
    /\ Len(entries) = 1
    /\ entries[1].title = Chars("Section 1")

---------------------------------------------------------------------------
(* C19, C20: the fences, under SpecFence *)

\* the number of copies of c the text s starts with
runLength(s, c) == SkipWhile(s, {c}, 1) - 1

\* C19: a step that opens a code block records the whole run of the fence, n >= 3
\* copies of a backtick or of a tilde; a step taken inside the block opened by n
\* copies of c leaves the block exactly when the trimmed line starts with n or more
\* copies of c, and otherwise leaves the scanner inside with the same marker.
C19_ClosedByMatchingFence ==
    [][lineNo' = lineNo + 1 =>
         LET line == lines[lineNo + 1]
         IN  /\ ~inCodeBlock /\ inCodeBlock' =>
                    \E c \in {BT, "~"} :
                       /\ runLength(stripListPrefix(line), c) >= 3
                       /\ codeBlockMarker' = [i \in 1..runLength(stripListPrefix(line), c) |-> c]
             /\ inCodeBlock =>
                    LET closes == runLength(Trim(line), codeBlockMarker[1])
                                     >= Len(codeBlockMarker)
                    IN  /\ inCodeBlock' = ~closes
                        /\ ~closes => codeBlockMarker' = codeBlockMarker]_vars

\* C19's case: FenceDoc was scanned to its end: the shorter fence and the fence of
\* tildes did not close the block, the longer fence did, the heading after it is listed
C19_Witness ==
    /\ pc = "composed"
    /\ content = FenceDoc
    /\ ~inCodeBlock
    /\ Len(entries) = 1
    /\ entries[1].title = Chars("Section 1")

\* C20: outside a code block and a comment, a line that is a fence line and holds
\* an opener of a comment without its closer moves the scanner into the code block
\* and not into the comment.
C20_FenceBeforeComment ==
    [][lineNo' = lineNo + 1 =>
         LET line == lines[lineNo + 1]
         IN  /\ ~inCodeBlock
             /\ ~inHtmlComment
             /\ isCodeBlockMarker(line) # <<>>
             /\ Includes(line, HTML_COMMENT_START)
             /\ ~Includes(line, HTML_COMMENT_END)
             => inCodeBlock' /\ ~inHtmlComment']_vars

---------------------------------------------------------------------------
(* C21: the fence that is never closed, under SpecFence *)

\* the locals of extractTocEntries after the first k lines of ls
scanOfFirst(ls, k) == scanFrom(scanStart, SubSeq(ls, 1, k), 1, defaultOptions)

\* line k of ls opens a code block that no later line of ls closes
opensUnterminated(ls, k) ==
    /\ ~scanOfFirst(ls, k - 1).inCodeBlock
    /\ scanOfFirst(ls, k).inCodeBlock
    /\ \A j \in (k + 1)..Len(ls) :
          runLength(Trim(ls[j]), scanOfFirst(ls, k).codeBlockMarker[1])
             < Len(scanOfFirst(ls, k).codeBlockMarker)

\* C21: once the scan has passed a line that opens a code block no later line
\* closes, the scanner is in the code-block state and the entries are those it had
\* before that line, to the end of the document; the scan reaches the last line, the
\* composed TOC lists those entries only, and updateToc returns the content with
\* that TOC (the content itself when there is no entry).
C21_UnterminatedFence ==
    \A k \in 1..lineNo :
       pc \in {"scan", "composed"} /\ opensUnterminated(lines, k) =>
          /\ inCodeBlock
          /\ entries = scanOfFirst(lines, k - 1).entries
          /\ pc = "composed" =>
                /\ lineNo = Len(lines)
                /\ toc = generateTocMarkdown(scanOfFirst(lines, k - 1).entries, defaultOptions)
                /\ IF entries = <<>> THEN updateToc(content, defaultOptions) = content
                   ELSE Includes(updateToc(content, defaultOptions), wrapToc(toc))

\* C21's case: a heading, a fence that is never closed and a heading after it were
\* scanned to the end; only the first heading is listed
C21_Witness ==
    /\ pc = "composed"
    /\ lines = <<Chars("## Section 1"), FENCE4, Chars("## Section 1")>>
    /\ inCodeBlock
    /\ Len(entries) = 1

---------------------------------------------------------------------------
(* C22-C24: the position of the TOC block, under SpecToc *)

\* the lines ls hold a start marker line followed by an end marker line (a marker
\* line proper, not a heading that happens to hold the words 'TOC end')
HasMarkerPair(ls) ==
    \E s \in 1..Len(ls), e \in 1..Len(ls) :
       /\ s < e
       /\ isStartLine(ls[s])
       /\ isEndLine(ls[e])
       /\ ~parseHeader(ls[e]).matched

\* C22: a placeholder line is the TOC position found by updateToc only in a
\* document without a start marker line followed by an end marker line.
C22_PairBeforePlaceholder ==
    pc = "updated" =>
        LET ls == Split(content)
            position == findTocPosition(content)
        IN  /\ position.found
            /\ position.startLine = position.endLine
            /\ isPlaceholderLine(ls[position.startLine + 1])
            => ~HasMarkerPair(ls)


\* the lines ls hold a start marker line, no end marker line at or after a start
\* marker line, and no placeholder line
HasDanglingStart(ls) ==
    /\ \E s \in 1..Len(ls) : isStartLine(ls[s])
    /\ \A s \in 1..Len(ls), e \in 1..Len(ls) : isStartLine(ls[s]) /\ s <= e => ~isEndLine(ls[e])
    /\ \A i \in 1..Len(ls) : ~isPlaceholderLine(ls[i])

\* the lines ls without their leading empty lines
withoutLeadingBlank(ls) ==
    LET nonEmpty == {i \in 1..Len(ls) : ls[i] # <<>>}
    IN  IF nonEmpty = {} THEN <<>> ELSE SubSeq(ls, MinOf(nonEmpty), Len(ls))

\* the lines us are an empty line, a marker-wrapped block, an empty line and then the
\* lines ds; the start marker of the block is line 2 and its end marker line k
BlockThenLines(us, ds) ==
    \E k \in 3..Len(us) :
       /\ us[1] = <<>>
       /\ us[2] = TOC_START
       /\ us[k] = TOC_END
       /\ \A i \in 3..(k - 1) : us[i] # TOC_START /\ us[i] # TOC_END
       /\ Len(us) = k + 1 + Len(ds)
       /\ us[k + 1] = <<>>
       /\ SubSeq(us, k + 2, Len(us)) = ds

C24_AtDocumentStart ==
    (/\ pc = "updated"
     /\ Len(extractTocEntries(content, defaultOptions)) > 0
     /\ ~findTocPosition(content).found
     /\ \A k \in 1..Len(Split(content)) : ~IsFrontMatter(Split(content), k))
        => LET us == Split(updated)
               ds == withoutLeadingBlank(Split(content))
           IN  /\ us[1] = TOC_START
               /\ \E k \in 2..Len(us) :
                     /\ us[k] = TOC_END
                     /\ \A i \in 2..(k - 1) : us[i] # TOC_END
                     /\ Len(us) = k + 1 + Len(ds)
                     /\ us[k + 1] = <<>>
                     /\ SubSeq(us, k + 2, Len(us)) = ds

---------------------------------------------------------------------------
(* C25, C26: the loop of processArticles, under SpecPush *)

\* the i-th result reports an error
isError(i) == results[i].status \in {"failed", "imageOffline"}

\* C25: the results are those of the articles in list order, one for one; an
\* article reported as failed or imageOffline is the last of the results and sets
\* the exit code to failure; and once the last result is such an article no step
\* saves a file, sends an article or adds a result.
C25_StopsAtFirstError ==
    /\ [](\A i \in 1..Len(results) :
            /\ results[i].file = i
            /\ i <= Len(articles)
            /\ isError(i) => i = Len(results) /\ exitCode = -1)
    /\ [][Len(results) > 0 /\ isError(Len(results))
            => saved' = saved /\ sent' = sent /\ results' = results]_vars

\* C25's case: push returned after the first of two articles was reported as an
\* error in a run that was not dry; the second has no result
C25_Witness ==
    /\ pc = "returned"
    /\ ~pushOptions.dryRun
    /\ Len(articles) = 2
    /\ Len(results) = 1
    /\ results[1].status = "imageOffline"
    /\ exitCode = -1


\* the content of the article after the footer update (when the footer file is found:
\* a published article is cut at its first line equal to the first line of the
\* footer, and the footer is put there) and then the TOC update of that content
\* (when the option is set and the content needs it)
footerThenToc(article, footerFile) ==
    LET ls == Split(article.content)
        marks == {i \in 1..Len(ls) : Trim(ls[i]) = Trim(Split(FooterFile)[1])}
        withFooter == IF footerFile = "found" /\ article.published /\ marks # {}
                      THEN Join(SubSeq(ls, 1, MinOf(marks) - 1) \o <<FooterFile>>)
                      ELSE article.content
    IN  IF pushOptions.updateToc /\ needsTocUpdate(withFooter)
        THEN updateToc(withFooter, defaultOptions)
        ELSE withFooter

\* the content c is what the footer update followed by the TOC update make of the
\* article, for one of the footer files of the environment
isFooterThenToc(c, article) ==
    \E footerFile \in {"unset", "found"} : c = footerThenToc(article, footerFile)

\* C26 as stated: every content push saves to a local file or sends to dev.to is
\* the article's content after the footer update followed by the TOC update.
C26_AllSavesAfterUpdates ==
    /\ \A i \in 1..Len(saved) : isFooterThenToc(saved[i].content, articles[saved[i].file])
    /\ \A i \in 1..Len(sent) : isFooterThenToc(sent[i].content, articles[sent[i].file])

\* C26, amended: every content the loop of processArticles saves or sends for an
\* article is that article's content after the footer update followed by the TOC
\* update; the save of the organization step, which comes before the loop, stores
\* the content as read.
C26_FooterThenTocThenSave ==
    [][/\ pc = "process" /\ (saved' # saved \/ sent' # sent) =>
            \E updates \in {{footerThenToc(articles[articleNo + 1], footerFile) :
                                 footerFile \in {"unset", "found"}}} :
                /\ \A i \in (Len(saved) + 1)..Len(saved') :
                      saved'[i].file = articleNo + 1 /\ saved'[i].content \in updates
                /\ \A i \in (Len(sent) + 1)..Len(sent') :
                      sent'[i].file = articleNo + 1 /\ sent'[i].content \in updates
       /\ pc = "organization" =>
            /\ sent' = sent
            /\ \A i \in (Len(saved) + 1)..Len(saved') :
                  saved'[i].content = articles[saved'[i].file].content]_vars

\* C26's case: a published article with an old footer and TOC markers was saved and
\* sent with the heading of the new footer listed in its TOC
C26_Witness ==
    /\ pc = "returned"
    /\ Len(saved) > 0
    /\ Len(sent) > 0
    /\ saved[1].content = sent[1].content
    /\ saved[1].content = footerThenToc(articles[saved[1].file], "found")
    /\ Includes(sent[1].content, Chars("[More](#more)"))

---------------------------------------------------------------------------
(* C27: the shape of the anchors, under SpecAnchor *)

\* the characters step 9 removes other than the hyphen, which steps 10 to 12 put
\* back between words
RemovedPunctuation == PUNCTUATION \ {"-"}

\* C27: the anchor generateDevToAnchor returns for a title holds no whitespace, no
\* uppercase ASCII letter, no removed punctuation character and no two hyphens in
\* a row, and it neither starts nor ends with a hyphen.
C27_AnchorShape ==
    pc = "anchor" =>
        /\ \A i \in 1..Len(anchor) :
              /\ anchor[i] \notin WhiteSpace
              /\ \A k \in 1..26 : anchor[i] # UpperCase[k]
              /\ anchor[i] \notin RemovedPunctuation
        /\ \A i \in 1..(Len(anchor) - 1) : ~(anchor[i] = "-" /\ anchor[i + 1] = "-")
        /\ anchor # <<>> => anchor[1] # "-" /\ anchor[Len(anchor)] # "-"

\* C27's case: a title made of an uppercase letter in inline code, whose backticks
\* become words with spaces around them, gave an anchor of three words
C27_Witness ==
    /\ pc = "anchor"
    /\ title = <<BT, "B", BT>>
    /\ anchor = Chars("raw-b-endraw")

---------------------------------------------------------------------------
(* C28, C29: the inserted block in the result of updateToc, under SpecToc *)

\* updateToc(c) inserts a block
insertsBlock(c) == Len(tocEntriesOf(c)) > 0

\* the index of the line of updateToc(c) that is the inserted start marker: the start
\* of the TOC that was removed, or the line after the leading empty line
insertedStart(c) ==
    LET position == removeExistingToc(c).position
    IN  IF position.found THEN position.startLine ELSE 1

\* the index of the inserted end marker: an empty line, one line for each entry and
\* an empty line lie between the two markers
insertedEnd(c) == insertedStart(c) + 3 + Len(tocEntriesOf(c))

\* C28: when updateToc inserts a block, findTocPosition on the returned text
\* reports the span from the inserted start marker line to the inserted end marker
\* line, whatever the titles listed in the block are.
C28_SearchFindsInsertedBlock ==
    pc \in {"updated", "updatedAgain"} /\ insertsBlock(content) =>
        /\ Split(updated)[insertedStart(content) + 1] = TOC_START
        /\ Split(updated)[insertedEnd(content) + 1] = TOC_END
        /\ findTocPosition(updated) = [found |-> TRUE, startLine |-> insertedStart(content),
                                         endLine |-> insertedEnd(content)]

\* C29: when updateToc inserts a block, generateTocOnly on the returned text gives
\* the TOC markup of that block: the inserted lines add no heading and neither
\* hide nor reveal a heading of the content around them.
C29_BlockKeepsHeadings ==
    pc \in {"updated", "updatedAgain"} /\ insertsBlock(content) =>
        generateTocOnly(updated, defaultOptions)
            = generateTocMarkdown(tocEntriesOf(content), defaultOptions)

---------------------------------------------------------------------------
(* C30: the retries of updateRemoteArticle, under SpecRetryFair *)

RateLimited == [kind |-> "RequestError", statusCode |-> 429]

\* the promise of updateRemoteArticle is settled
settled == pc \in {"returned", "thrown"}

\* C30: updateRemoteArticle makes at most maxRetries + 1 = 4 requests and always
\* ends; every request before the last was answered 429; a body is returned as soon
\* as a request gives one; an error other than a 429 response is thrown again at
\* once; and a 429 on the fourth request is thrown again.
C30_BoundedRetry ==
    /\ [](/\ Len(requests) <= maxRetries + 1
          /\ maxRetries + 1 = 4
          /\ \A i \in 1..(Len(requests) - 1) : requests[i].outcome = RateLimited
          /\ pc = "returned" => /\ requests[Len(requests)].outcome = Body
                                /\ response = Body
          /\ pc = "thrown" =>
                \/ response = StringifyError
                \/ /\ response = requests[Len(requests)].outcome
                   /\ response.kind = "RequestError"
                   /\ response = RateLimited => Len(requests) = maxRetries + 1
          /\ pc \in {"delay", "retryRequest"} /\ requests # <<>> =>
                /\ requests[Len(requests)].outcome = RateLimited
                /\ Len(requests) <= maxRetries)
    /\ <>settled

\* C30's case: the fourth request was also answered 429 and the error was thrown
C30_Witness ==
    /\ pc = "thrown"
    /\ Len(requests) = 4
    /\ response = RateLimited

====
